---- MODULE Spec2Model ----
(***************************************************************************)
(* Model of the visit-counting service: the Visit Counter Store            *)
(* (src/src/models/VisitTracker.js), the country-code validator            *)
(* (src/src/utils/countryData.js), the process-wide Redis client           *)
(* (src/src/config/database.js) and the Redis hash `visit_stats` the store *)
(* reads and writes.                                                       *)
(*                                                                         *)
(* JavaScript strings are sequences of one-character strings, so that      *)
(* toLowerCase, trim, parseInt and the decimal encoding Redis uses for     *)
(* hash values are computed, not assumed.                                  *)
(***************************************************************************)
EXTENDS Integers, Sequences, FiniteSets, TLC

\* ------------------------------------------------------------------ bounds
\* Total number of store calls started in one behaviour.
MaxCalls == 3

\* Number of store calls one sequential caller makes.
MaxSeqCalls == 5

\* Number of read calls made over a table found at start.
MaxAggCalls == 1

\* Number of calls one caller makes on the store and the OptimizedRedisClient.
MaxBatchCalls == 2

\* Number of visits in one batchTrackVisits call.
MaxVisits == 2

\* Number of store calls the requests of one behaviour start.
MaxHttpCalls == 2

\* Number of calls started on the store and the cache in one behaviour.
MaxCacheCalls == 3

\* Number of calls one caller makes on the store and the cache, resets
\* included.
MaxStaleCalls == 4

\* Number of calls one caller makes on the store and the database.js client.
MaxConnCalls == 3

\* connect() calls of the pooled client.
MaxConnects == 2

\* getPoolClient() calls since the pool last changed, on a pool that is
\* created once.
MaxPicks == 11

\* getPoolClient() calls since the pool last changed, between connect()
\* and disconnect() calls.
MaxPoolPicks == 1

\* batchOperations and disconnect calls of the pooled client.
MaxPoolCalls == 2

\* connect() calls, and batchOperations and disconnect calls, around a run
\* of getPoolClient() calls.
MaxRobinConnects == 2

MaxRobinCalls == 1

\* Signals the process receives.
MaxSignals == 2

\* getPoolClient() calls in a row while connectionPool is empty.
MaxEmptyPicks == 2

\* The instants (in seconds) at which the backend is observed.
Times == {0, 1, 2, 30, 31}

\* Counts the fields of a table found at start may hold.
CountSamples == {1, 2, 10}

\* The concurrent callers (request handlers running on the event loop).
Callers == {"c1", "c2"}

\* ----------------------------------------------------------- JS strings
UpperLetters == <<"A","B","C","D","E","F","G","H","I","J","K","L","M",
                  "N","O","P","Q","R","S","T","U","V","W","X","Y","Z">>

LowerLetters == <<"a","b","c","d","e","f","g","h","i","j","k","l","m",
                  "n","o","p","q","r","s","t","u","v","w","x","y","z">>

Digits == <<"0","1","2","3","4","5","6","7","8","9">>

WhiteSpace == {" ", "\t", "\n"}

\* String.prototype.toLowerCase on one character.
LowerChar(c) ==
  IF \E i \in 1..26 : UpperLetters[i] = c
  THEN LowerLetters[CHOOSE i \in 1..26 : UpperLetters[i] = c]
  ELSE c

\* String.prototype.toLowerCase.
ToLowerCase(s) == [i \in 1..Len(s) |-> LowerChar(s[i])]

RECURSIVE TrimStart(_)
TrimStart(s) ==
  IF s # <<>> /\ Head(s) \in WhiteSpace THEN TrimStart(Tail(s)) ELSE s

RECURSIVE TrimEnd(_)
TrimEnd(s) ==
  IF s # <<>> /\ s[Len(s)] \in WhiteSpace
  THEN TrimEnd(SubSeq(s, 1, Len(s) - 1))
  ELSE s

\* String.prototype.trim.
Trim(s) == TrimEnd(TrimStart(s))

DigitValue(c) == (CHOOSE i \in 1..10 : Digits[i] = c) - 1

IsDigit(c) == \E i \in 1..10 : Digits[i] = c

RECURSIVE ParseDigits(_, _)
ParseDigits(s, acc) ==
  IF s # <<>> /\ IsDigit(Head(s))
  THEN ParseDigits(Tail(s), acc * 10 + DigitValue(Head(s)))
  ELSE acc

\* parseInt(s, 10) on the decimal strings the hash holds: leading white
\* space is skipped, a sign is read, then the leading run of digits;
\* anything after it is ignored.  A string without a leading digit gives
\* NaN, written here as an integer no count of this model takes.
NaN == -1000000

ParseInt(s) ==
  LET t == TrimStart(s)
      neg == t # <<>> /\ Head(t) = "-"
      u == IF t # <<>> /\ Head(t) \in {"-", "+"} THEN Tail(t) ELSE t
  IN IF u # <<>> /\ IsDigit(Head(u))
     THEN (IF neg THEN 0 - ParseDigits(u, 0) ELSE ParseDigits(u, 0))
     ELSE NaN

RECURSIVE ToDecimal(_)
\* The decimal string Redis stores for an integer.
ToDecimal(n) ==
  IF n < 0 THEN <<"-">> \o ToDecimal(0 - n)
  ELSE IF n < 10 THEN <<Digits[n + 1]>>
  ELSE Append(ToDecimal(n \div 10), Digits[(n % 10) + 1])

\* -------------------------------------------------------- JS input values
\* A value handed to the store as `countryCode`: its typeof and the string
\* a template literal renders it to (for a string, the string itself).
Str(s) == [type |-> "string", val |-> s]

Null == [type |-> "object", val |-> <<"n","u","l","l">>]

Num42 == [type |-> "number", val |-> <<"4","2">>]

Undefined == [type |-> "undefined", val |-> <<"u","n","d","e","f","i","n","e","d">>]

\* Falsy values among the inputs: "", null, undefined (a non-zero number is
\* truthy).
Falsy(v) == (v.type = "string" /\ v.val = <<>>) \/ v = Null \/ v = Undefined

CodeInputs ==
  { Str(<<"u","s">>), Str(<<"U","S">>), Str(<<"U","s">>), Str(<<"g","b">>),
    Str(<<" ","u","s">>),
    Str(<<"I","N","V","A","L","I","D">>), Str(<<>>), Null, Num42 }

\* ------------------------------------------------------- countryData.js
\* this.countries: the `code` column of country-list's data (a sample).
countries == { <<"U","S">>, <<"G","B">>, <<"D","E">> }

isValidCountryCode(countryCode) ==
  IF Falsy(countryCode) \/ countryCode.type # "string"
  THEN FALSE
  ELSE LET normalizedCode == Trim(ToLowerCase(countryCode.val))
       IN \E code \in countries : ToLowerCase(code) = normalizedCode

ValidInputs == { v \in CodeInputs : isValidCountryCode(v) }

InvalidInputs == CodeInputs \ ValidInputs

\* Every field name a store call of this model can address.
AllFields == { ToLowerCase(v.val) : v \in ValidInputs }

\* ------------------------------------------------------- Redis (backend)
STATS_KEY == "visit_stats"

CACHE_KEY == "stats_cache"

Keys == {STATS_KEY, CACHE_KEY}

\* An absent key: a hash without fields.
EmptyHash == [f \in {} |-> <<>>]

\* HINCRBY key field by: the field is created at 0 if absent, the sum is
\* stored as a decimal string and returned as an integer.
HIncrByValue(h, field, by) ==
  (IF field \in DOMAIN h THEN ParseInt(h[field]) ELSE 0) + by

HIncrByHash(h, field, by) ==
  [g \in DOMAIN h \cup {field} |->
     IF g = field THEN ToDecimal(HIncrByValue(h, field, by)) ELSE h[g]]

\* DEL key: the number of keys removed.
DelCount(d, key) == IF DOMAIN d[key] = {} THEN 0 ELSE 1

\* Variant: DEL leaves the key in place.
DelDb_Keep(d, key) == d

DelDb(d, key) == [d EXCEPT ![key] = EmptyHash]

\* Variant: DEL of any key removes the string key stats_cache.
DelEntry_AnyKey(entry, absent, key) == absent

\* DEL key on the string key stats_cache: only DEL stats_cache removes it.
DelEntry(entry, absent, key) == IF key = CACHE_KEY THEN absent ELSE entry

\* The orders in which HGETALL may list the fields of a hash.
Orders(S) ==
  { o \in [1..Cardinality(S) -> S] : \A i, j \in DOMAIN o : i # j => o[i] # o[j] }

\* HGETALL key, listing the fields in order o: <<field, value>> pairs.
HGetAllReply(h, o) == [i \in DOMAIN o |-> <<o[i], h[o[i]]>>]

\* ------------------------------------------------------------ store state
VARIABLES
  client,       \* database.js this.client: "null" or "created"
  isConnected,  \* database.js this.isConnected
  db,           \* Redis: key -> hash (field -> decimal string)
  calls,        \* per caller: the store call it runs and where it stands; snap and
                \* clean record the table and resetClean the backend found
  ncalls,       \* number of store calls started
  applied,      \* per field: counts HINCRBY returned, in backend order, since the last reset
  returned,     \* per field: counts trackVisit handed to its callers, in order of return, since the last reset
  resets,       \* number of resetStatistics commands the backend applied
  resetClean,   \* a resetStatistics command was applied and no HINCRBY since
  optimized,    \* the OptimizedRedisClient: client, isConnected, connectionPool
  cacheEntry,   \* Redis: the string key stats_cache, its value and expiry
  now,          \* the clock of the backend, in seconds
  sockets,      \* the connections the clients opened: which are open, ended or closed with quit
  picked,       \* the clients getPoolClient returned since connectionPool last changed
  server        \* server.js: the HTTP server, the shutdown under way and the exit code

\* What the store and the routes leave alone.
lifeVars == <<sockets, picked, server>>

optimizedVars == <<optimized, cacheEntry, now, sockets, picked, server>>

vars == <<client, isConnected, db, calls, ncalls, applied, returned, resets, resetClean,
          optimized, cacheEntry, now, sockets, picked, server>>

\* The visits handed to batchTrackVisits: a country code and a count of 1
\* (absent), -1 or 0.
NoCount == [given |-> FALSE, n |-> 0]

VisitInputs ==
  { [countryCode |-> Str(<<"U","S">>), count |-> NoCount],
    [countryCode |-> Str(<<"u","s">>), count |-> [given |-> TRUE, n |-> -1]],
    [countryCode |-> Str(<<"x","x">>), count |-> [given |-> TRUE, n |-> 0]],
    [countryCode |-> Undefined, count |-> NoCount] }

\* Field names the history variables are indexed by.
HistoryFields ==
  { ToLowerCase(v.countryCode.val) : v \in { w \in VisitInputs : w.countryCode.type = "string" } } \cup
  AllFields \cup { ToLowerCase(code) : code \in countries } \cup { v.val : v \in ValidInputs } \cup { Trim(ToLowerCase(v.val)) : v \in ValidInputs }

NoLimit == [given |-> FALSE, n |-> 0]

NoCmd == [name |-> "none", key |-> "", field |-> <<>>, by |-> 0]

NoReply == [kind |-> "none", val |-> 0]

NoOutcome == [status |-> "none", val |-> 0]

\* No HTTP request: the store method is called directly.
NoRequest == [route |-> "none", input |-> Null]

NoResponse == [status |-> 0, data |-> 0]

\* limit is the limit of getTopCountries or the ttl of getStatisticsCached;
\* issued lists the commands the backend received from the call; req and res
\* are the HTTP request the call serves and the response sent for it; result
\* is the local `result` of getStatisticsCached.
IdleCall ==
  [pc |-> "idle", op |-> "none", code |-> Null, limit |-> NoLimit,
   cmd |-> NoCmd, reply |-> NoReply, outcome |-> NoOutcome,
   snap |-> EmptyHash, clean |-> FALSE, issued |-> <<>>,
   req |-> NoRequest, res |-> NoResponse, result |-> <<>>]

\* Variant: the error renders the lowercased input.
InvalidCountryCodeError_Lowered(countryCode) ==
  [message |-> "Invalid country code: ", detail |-> ToLowerCase(countryCode.val), code |-> "none"]

\* Errors: the message, for an invalid code the input rendered into it, and
\* err.code ("none" when the error has no code).
InvalidCountryCodeError(countryCode) ==
  [message |-> "Invalid country code: ", detail |-> countryCode.val, code |-> "none"]

NotConnectedError == [message |-> "Redis client not connected", detail |-> <<>>, code |-> "none"]

\* What a backend command may reject with.
BackendErrors ==
  { [message |-> "Socket closed unexpectedly", detail |-> <<>>, code |-> "none"] }

\* database.js getClient: throws unless the client exists and is connected.
getClientThrows == client = "null" \/ ~isConnected

\* OptimizedRedisClient constructor (lines 4-10)
maxConnections == 10

NewOptimized == [client |-> "null", isConnected |-> FALSE, connectionPool |-> <<>>]

\* The writes the backend has applied to visit_stats: the number of resets
\* and the increments since the last of them.
NoWrites == [resets |-> 0, applied |-> [f \in HistoryFields |-> <<>>]]

\* An absent key stats_cache.  `of` is the table the value was computed
\* from, storedAt the time SETEX stored it, ttl the seconds it was given and
\* writes the writes applied to visit_stats when it was stored.
NoEntry ==
  [present |-> FALSE, value |-> <<>>, expireAt |-> 0, of |-> EmptyHash, storedAt |-> 0, ttl |-> 0,
   writes |-> NoWrites]

\* No connection has been opened: `store` is the connection of the
\* database.js client, `main` those of the clients OptimizedRedisClient
\* connect() created, `pool` those of the pool clients, by their number.
NoSockets == [store |-> "none", main |-> <<>>, pool |-> <<>>]

\* server.js while startServer awaits redisClient.connect(): `server` is
\* undefined, no signal was received, no close callback is registered, the
\* process has not exited.
NoServer == [http |-> "undefined", signal |-> "none", signals |-> 0, callbacks |-> 0,
             exit |-> "none"]

InitOptimized ==
  /\ optimized = NewOptimized
  /\ cacheEntry = NoEntry
  /\ now = 0
  /\ sockets = NoSockets
  /\ picked = <<>>
  /\ server = NoServer

Init ==
  /\ InitOptimized
  /\ client = "null"
  /\ isConnected = FALSE
  /\ db = [k \in Keys |-> EmptyHash]
  /\ calls = [p \in Callers |-> IdleCall]
  /\ ncalls = 0
  /\ applied = [f \in HistoryFields |-> <<>>]
  /\ returned = [f \in HistoryFields |-> <<>>]
  /\ resets = 0
  /\ resetClean = FALSE

\* --------------------------------------------------- database.js actions
\* connect(): creates the client; client.connect() resolves (the 'connect'
\* and 'ready' handlers have run) or rejects (the 'error' handler has run).
Connect ==
  /\ client = "null"
  /\ client' = "created"
  /\ isConnected' \in BOOLEAN
  /\ UNCHANGED <<db, calls, ncalls, applied, returned, resets, resetClean, optimizedVars>>

\* client.on('error')
OnError ==
  /\ client = "created"
  /\ isConnected' = FALSE
  /\ UNCHANGED <<client, db, calls, ncalls, applied, returned, resets, resetClean, optimizedVars>>

\* client.on('end')
OnEnd ==
  /\ client = "created"
  /\ isConnected
  /\ isConnected' = FALSE
  /\ UNCHANGED <<client, db, calls, ncalls, applied, returned, resets, resetClean, optimizedVars>>

\* client.on('connect') / client.on('ready')
OnReady ==
  /\ client = "created"
  /\ isConnected' = TRUE
  /\ UNCHANGED <<client, db, calls, ncalls, applied, returned, resets, resetClean, optimizedVars>>

\* The same handlers with the connection they are fired for.  connect()
\* lines 9-53: client.connect() resolves with the connection open, or
\* rejects with none.
ConnectOpens ==
  /\ client = "null"
  /\ client' = "created"
  /\ \/ isConnected' = TRUE /\ sockets' = [sockets EXCEPT !.store = "open"]
     \/ isConnected' = FALSE /\ UNCHANGED sockets
  /\ UNCHANGED <<db, calls, ncalls, applied, returned, resets, resetClean,
                 optimized, cacheEntry, now, picked, server>>

\* 'error' (lines 27-30): the connection failed; the client keeps it and
\* reconnects.
ConnectionError ==
  /\ client = "created"
  /\ sockets.store = "open"
  /\ isConnected' = FALSE
  /\ UNCHANGED <<client, db, calls, ncalls, applied, returned, resets, resetClean, optimizedVars>>

\* 'end' (lines 42-45): the connection is gone for good.
ConnectionEnd ==
  /\ client = "created"
  /\ sockets.store \in {"open", "quit"}
  /\ isConnected
  /\ isConnected' = FALSE
  /\ sockets' = [sockets EXCEPT !.store = IF @ = "open" THEN "ended" ELSE @]
  /\ UNCHANGED <<client, db, calls, ncalls, applied, returned, resets, resetClean,
                 optimized, cacheEntry, now, picked, server>>

\* 'connect' / 'ready' (lines 32-40): the open connection is usable again.
ConnectionReady ==
  /\ client = "created"
  /\ sockets.store = "open"
  /\ isConnected' = TRUE
  /\ UNCHANGED <<client, db, calls, ncalls, applied, returned, resets, resetClean, optimizedVars>>

\* ------------------------------------------- errorHandler and the routes
\* The characters of a string.
Chars(s) == [i \in 1..Len(s) |-> SubSeq(s, i, i)]

\* String.prototype.includes
Includes(s, t) ==
  \E i \in 1..(Len(s) - Len(t) + 1) : SubSeq(s, i, i + Len(t) - 1) = t

\* err.message: the text with the input rendered into it.
MessageOf(err) == Chars(err.message) \o err.detail

\* errorHandler lines 21-50.  No error a store method throws has isJoi or
\* statusCode set, so what is not a connection error is a 500.
errorHandler(err) ==
  IF err.code = "ECONNREFUSED" \/ Includes(MessageOf(err), Chars("Redis"))
  THEN [status |-> 503, data |-> "Database connection error"]
  ELSE [status |-> 500, data |-> err.message]

\* The res.status(200).json(...) of each route of routes/visits.js: the
\* status and the `data` of the body.
routeResponse(req, code, limit, value) ==
  [status |-> 200,
   data |-> CASE req.route = "GET /stats/:countryCode"
                   -> [country |-> ToLowerCase(code.val), count |-> value]
              [] req.route = "GET /top" -> [limit |-> limit.n, countries |-> value]
              [] req.route = "GET /total" -> [total |-> value]
              [] OTHER -> value]

\* ------------------------------------------------ VisitTracker.js, calls
\* The synchronous part of a store method called for request req (NoRequest
\* for a direct call): it throws (the promise rejects, and asyncHandler hands
\* the error to errorHandler) or sends one command and awaits its reply.
Rejects(p, req, op, code, limit, err) ==
  calls' = [calls EXCEPT ![p] =
              [IdleCall EXCEPT !.op = op, !.code = code, !.limit = limit,
                               !.outcome = [status |-> "error", val |-> err],
                               !.req = req,
                               !.res = IF req = NoRequest THEN NoResponse
                                       ELSE errorHandler(err)]]

Sends(p, req, op, code, limit, cmd) ==
  calls' = [calls EXCEPT ![p] =
              [IdleCall EXCEPT !.pc = "sent", !.op = op, !.code = code,
                               !.limit = limit, !.cmd = cmd, !.req = req]]

\* Variant: the field keeps the case of the input.
trackVisitCommand_KeepCase(countryCode) ==
  [name |-> "hIncrBy", key |-> STATS_KEY, field |-> countryCode.val, by |-> 1]

\* Variant: the field is normalized the way the validator normalizes.
trackVisitCommand_Trimmed(countryCode) ==
  [name |-> "hIncrBy", key |-> STATS_KEY, field |-> Trim(ToLowerCase(countryCode.val)), by |-> 1]

\* trackVisit line 25: client.hIncrBy(this.STATS_KEY, countryCode.toLowerCase(), 1)
trackVisitCommand(countryCode) ==
  [name |-> "hIncrBy", key |-> STATS_KEY, field |-> ToLowerCase(countryCode.val), by |-> 1]

\* Variant: the count before the increment is reported.
trackVisitResult_Stale(countryCode, newCount) ==
  [success |-> TRUE, country |-> ToLowerCase(countryCode.val), count |-> newCount - 1]

\* Variant: the country is echoed as given.
trackVisitResult_KeepCase(countryCode, newCount) ==
  [success |-> TRUE, country |-> countryCode.val, count |-> newCount]

\* trackVisit lines 29-33: the value it resolves to.
trackVisitResult(countryCode, newCount) ==
  [success |-> TRUE, country |-> ToLowerCase(countryCode.val), count |-> newCount]

\* getCountryStats line 78: client.hGet(this.STATS_KEY, countryCode.toLowerCase())
getCountryStatsCommand(countryCode) ==
  [name |-> "hGet", key |-> STATS_KEY, field |-> ToLowerCase(countryCode.val), by |-> 0]

\* getCountryStats line 80: count ? parseInt(count, 10) : 0
getCountryStatsResult(count) ==
  IF count.kind = "nil" \/ count.val = <<>> THEN 0 ELSE ParseInt(count.val)

\* getStatistics line 49: client.hGetAll(this.STATS_KEY)
getStatisticsCommand == [name |-> "hGetAll", key |-> STATS_KEY, field |-> <<>>, by |-> 0]

\* getStatistics lines 52-59: the object built from the reply, as the
\* sequence of its <<country, count>> entries in insertion order.
getStatisticsResult(stats) ==
  [i \in DOMAIN stats |-> <<stats[i][1], ParseInt(stats[i][2])>>]

\* Variant: another key is deleted.
resetStatisticsCommand_CacheKey == [name |-> "del", key |-> CACHE_KEY, field |-> <<>>, by |-> 0]

\* resetStatistics line 94: client.del(this.STATS_KEY)
resetStatisticsCommand == [name |-> "del", key |-> STATS_KEY, field |-> <<>>, by |-> 0]

\* Variant: a reset that removed no key reports failure.
resetStatisticsResult_NeedsKey(deleted) ==
  [success |-> deleted > 0, message |-> "Statistics reset successfully"]

\* resetStatistics line 98: the reply of del is not looked at.
resetStatisticsResult(deleted) ==
  [success |-> TRUE, message |-> "Statistics reset successfully"]

RECURSIVE Reduce(_, _)
\* Array.prototype.reduce((total, count) => total + count, total)
Reduce(values, total) ==
  IF values = <<>> THEN total ELSE Reduce(Tail(values), total + Head(values))

\* Variant: the fields are counted, not summed.
getTotalVisitsResult_CountsFields(stats) == Len(stats)

\* getTotalVisits line 129: Object.values(stats).reduce(..., 0)
getTotalVisitsResult(stats) ==
  Reduce([i \in DOMAIN stats |-> stats[i][2]], 0)

\* Variant: the entries stay in the order of the reply.
InsertDesc_Unsorted(sorted, e) == Append(sorted, e)

\* Array.prototype.sort((a, b) => b.count - a.count) is stable: e goes
\* before the first element with a smaller count, after every other.
InsertDesc(sorted, e) ==
  LET smaller == { i \in DOMAIN sorted : sorted[i].count < e.count }
      k == IF smaller = {} THEN Len(sorted) + 1
           ELSE CHOOSE i \in smaller : \A j \in smaller : i <= j
  IN SubSeq(sorted, 1, k - 1) \o <<e>> \o SubSeq(sorted, k, Len(sorted))

RECURSIVE SortDesc(_, _)
SortDesc(rest, sorted) ==
  IF rest = <<>> THEN sorted ELSE SortDesc(Tail(rest), InsertDesc(sorted, Head(rest)))

\* Array.prototype.slice(0, end): a negative end counts from the end.
Slice0(a, end) ==
  LET k == IF end < 0 THEN (IF Len(a) + end < 0 THEN 0 ELSE Len(a) + end)
           ELSE (IF end > Len(a) THEN Len(a) ELSE end)
  IN SubSeq(a, 1, k)

\* getTopCountries line 141: limit = 10 when the argument is undefined.
DefaultLimit == 10

EffectiveLimit(limit) == IF limit.given THEN limit.n ELSE DefaultLimit

\* getTopCountries lines 144-147
getTopCountriesResult(stats, limit) ==
  Slice0(SortDesc([i \in DOMAIN stats |-> [country |-> stats[i][1], count |-> stats[i][2]]], <<>>),
         EffectiveLimit(limit))

\* The limits getTopCountries is called with.
Limits ==
  { NoLimit } \cup { [given |-> TRUE, n |-> k] : k \in {-1, 0, 1, 2, 3} }

\* trackVisit(countryCode), up to its await (lines 16-25)
trackVisit(p, req, countryCode) ==
  /\ calls[p].pc = "idle"
  /\ ncalls' = ncalls + 1
  /\ IF ~isValidCountryCode(countryCode)
     THEN Rejects(p, req, "trackVisit", countryCode, NoLimit, InvalidCountryCodeError(countryCode))
     ELSE IF getClientThrows
     THEN Rejects(p, req, "trackVisit", countryCode, NoLimit, NotConnectedError)
     ELSE Sends(p, req, "trackVisit", countryCode, NoLimit, trackVisitCommand(countryCode))
  /\ UNCHANGED <<client, isConnected, db, applied, returned, resets, resetClean, optimizedVars>>

TrackVisit(p, countryCode) == trackVisit(p, NoRequest, countryCode)

\* getCountryStats(countryCode), up to its await (lines 72-78)
getCountryStats(p, req, countryCode) ==
  /\ calls[p].pc = "idle"
  /\ ncalls' = ncalls + 1
  /\ IF ~isValidCountryCode(countryCode)
     THEN Rejects(p, req, "getCountryStats", countryCode, NoLimit, InvalidCountryCodeError(countryCode))
     ELSE IF getClientThrows
     THEN Rejects(p, req, "getCountryStats", countryCode, NoLimit, NotConnectedError)
     ELSE Sends(p, req, "getCountryStats", countryCode, NoLimit, getCountryStatsCommand(countryCode))
  /\ UNCHANGED <<client, isConnected, db, applied, returned, resets, resetClean, optimizedVars>>

GetCountryStats(p, countryCode) == getCountryStats(p, NoRequest, countryCode)

\* getStatistics(), getTotalVisits() and getTopCountries(limit), up to the
\* await of getStatistics (lines 45-49, reached from 128 and 143)
ReadAll(p, req, op, limit) ==
  /\ calls[p].pc = "idle"
  /\ ncalls' = ncalls + 1
  /\ IF getClientThrows
     THEN Rejects(p, req, op, Null, limit, NotConnectedError)
     ELSE Sends(p, req, op, Null, limit, getStatisticsCommand)
  /\ UNCHANGED <<client, isConnected, db, applied, returned, resets, resetClean, optimizedVars>>

GetStatistics(p) == ReadAll(p, NoRequest, "getStatistics", NoLimit)

GetTotalVisits(p) == ReadAll(p, NoRequest, "getTotalVisits", NoLimit)

GetTopCountries(p, limit) == ReadAll(p, NoRequest, "getTopCountries", limit)

\* resetStatistics(), up to its await (lines 92-94)
resetStatistics(p, req) ==
  /\ calls[p].pc = "idle"
  /\ ncalls' = ncalls + 1
  /\ IF getClientThrows
     THEN Rejects(p, req, "resetStatistics", Null, NoLimit, NotConnectedError)
     ELSE Sends(p, req, "resetStatistics", Null, NoLimit, resetStatisticsCommand)
  /\ UNCHANGED <<client, isConnected, db, applied, returned, resets, resetClean, optimizedVars>>

ResetStatistics(p) == resetStatistics(p, NoRequest)

\* ------------------------------------------------- the backend at work
Replies(p, reply) ==
  calls' = [calls EXCEPT ![p].pc = "replied", ![p].reply = reply,
                         ![p].snap = db[STATS_KEY], ![p].clean = resetClean,
                         ![p].issued = Append(@, calls[p].cmd)]

\* The backend executes a HINCRBY (atomically) and replies the new value.
BackendHIncrBy(p) ==
  LET c == calls[p].cmd
      n == HIncrByValue(db[c.key], c.field, c.by)
  IN /\ calls[p].pc = "sent"
     /\ c.name = "hIncrBy"
     /\ db' = [db EXCEPT ![c.key] = HIncrByHash(@, c.field, c.by)]
     /\ Replies(p, [kind |-> "int", val |-> n])
     /\ applied' = [applied EXCEPT ![c.field] = Append(@, n)]
     /\ resetClean' = FALSE
     /\ UNCHANGED <<client, isConnected, ncalls, returned, resets, optimizedVars>>

\* The backend executes a HGET: the stored string, or nil.
BackendHGet(p) ==
  LET c == calls[p].cmd
  IN /\ calls[p].pc = "sent"
     /\ c.name = "hGet"
     /\ Replies(p, IF c.field \in DOMAIN db[c.key]
                   THEN [kind |-> "string", val |-> db[c.key][c.field]]
                   ELSE [kind |-> "nil", val |-> <<>>])
     /\ UNCHANGED <<client, isConnected, db, ncalls, applied, returned, resets, resetClean, optimizedVars>>

\* The backend executes a HGETALL: every field, in an order of its choosing.
BackendHGetAll(p) ==
  LET c == calls[p].cmd
  IN /\ calls[p].pc = "sent"
     /\ c.name = "hGetAll"
     /\ \E o \in Orders(DOMAIN db[c.key]) :
          Replies(p, [kind |-> "entries", val |-> HGetAllReply(db[c.key], o)])
     /\ UNCHANGED <<client, isConnected, db, ncalls, applied, returned, resets, resetClean, optimizedVars>>

\* The backend executes a DEL.
BackendDel(p) ==
  LET c == calls[p].cmd
  IN /\ calls[p].pc = "sent"
     /\ c.name = "del"
     /\ db' = DelDb(db, c.key)
     /\ cacheEntry' = DelEntry(cacheEntry, NoEntry, c.key)
     /\ Replies(p, [kind |-> "int", val |-> DelCount(db, c.key)])
     /\ applied' = [f \in HistoryFields |-> <<>>]
     /\ returned' = [f \in HistoryFields |-> <<>>]
     /\ resets' = resets + 1
     /\ resetClean' = TRUE
     /\ UNCHANGED <<client, isConnected, ncalls, optimized, now, lifeVars>>

\* The command fails with one of the given errors (connection lost,
\* timeout): nothing is applied.
BackendRejectsWith(p, errors) ==
  /\ calls[p].pc = "sent"
  /\ \E e \in errors :
       calls' = [calls EXCEPT ![p].pc = "replied", ![p].reply = [kind |-> "error", val |-> e],
                              ![p].issued = Append(@, calls[p].cmd)]
  /\ UNCHANGED <<client, isConnected, db, ncalls, applied, returned, resets, resetClean, optimizedVars>>

BackendRejects(p) == BackendRejectsWith(p, BackendErrors)

\* --------------------------------------- VisitTracker.js, after the await
\* The method resolves; a route handler awaiting it sends its response.
Resolves(p, value) ==
  calls' = [calls EXCEPT ![p].pc = "idle", ![p].cmd = NoCmd, ![p].reply = NoReply,
                         ![p].outcome = [status |-> "ok", val |-> value],
                         ![p].res = IF calls[p].req = NoRequest THEN NoResponse
                                    ELSE routeResponse(calls[p].req, calls[p].code,
                                                       calls[p].limit, value)]

\* Variant: the error is swallowed and a default is returned.
Rethrows_Default(p) ==
  calls' = [calls EXCEPT ![p].pc = "idle", ![p].cmd = NoCmd, ![p].reply = NoReply,
                         ![p].outcome = [status |-> "ok", val |-> 0]]

\* Variant: the failed command is issued again.
Rethrows_Retry(p) ==
  calls' = [calls EXCEPT ![p].pc = "sent", ![p].reply = NoReply]

\* catch (error) { throw error }; asyncHandler hands the error of a route
\* handler to errorHandler.
Rethrows(p) ==
  calls' = [calls EXCEPT ![p].pc = "idle", ![p].cmd = NoCmd, ![p].reply = NoReply,
                         ![p].outcome = [status |-> "error", val |-> calls[p].reply.val],
                         ![p].res = IF calls[p].req = NoRequest THEN NoResponse
                                    ELSE errorHandler(calls[p].reply.val)]

\* trackVisit lines 27-37
TrackVisitReturns(p) ==
  LET c == calls[p]
  IN /\ c.pc = "replied"
     /\ c.op = "trackVisit"
     /\ IF c.reply.kind = "error"
        THEN Rethrows(p) /\ UNCHANGED returned
        ELSE /\ Resolves(p, trackVisitResult(c.code, c.reply.val))
             /\ returned' = [returned EXCEPT ![ToLowerCase(c.code.val)] =
                               Append(@, trackVisitResult(c.code, c.reply.val).count)]
     /\ UNCHANGED <<client, isConnected, db, ncalls, applied, resets, resetClean, optimizedVars>>

\* getCountryStats lines 80-84
GetCountryStatsReturns(p) ==
  LET c == calls[p]
  IN /\ c.pc = "replied"
     /\ c.op = "getCountryStats"
     /\ IF c.reply.kind = "error"
        THEN Rethrows(p)
        ELSE Resolves(p, getCountryStatsResult(c.reply))
     /\ UNCHANGED <<client, isConnected, db, ncalls, applied, returned, resets, resetClean, optimizedVars>>

\* A JS object read as a mapping: its keys and their values.
AsMapping(entries) ==
  [k \in { entries[i][1] : i \in DOMAIN entries } |->
     entries[CHOOSE i \in DOMAIN entries : entries[i][1] = k][2]]

\* getStatistics lines 51-63
GetStatisticsReturns(p) ==
  LET c == calls[p]
  IN /\ c.pc = "replied"
     /\ c.op = "getStatistics"
     /\ IF c.reply.kind = "error"
        THEN Rethrows(p)
        ELSE Resolves(p, AsMapping(getStatisticsResult(c.reply.val)))
     /\ UNCHANGED <<client, isConnected, db, ncalls, applied, returned, resets, resetClean, optimizedVars>>

\* getTotalVisits lines 128-133, getStatistics resolved or rejected
GetTotalVisitsReturns(p) ==
  LET c == calls[p]
  IN /\ c.pc = "replied"
     /\ c.op = "getTotalVisits"
     /\ IF c.reply.kind = "error"
        THEN Rethrows(p)
        ELSE Resolves(p, getTotalVisitsResult(getStatisticsResult(c.reply.val)))
     /\ UNCHANGED <<client, isConnected, db, ncalls, applied, returned, resets, resetClean, optimizedVars>>

\* getTopCountries lines 143-151, getStatistics resolved or rejected
GetTopCountriesReturns(p) ==
  LET c == calls[p]
  IN /\ c.pc = "replied"
     /\ c.op = "getTopCountries"
     /\ IF c.reply.kind = "error"
        THEN Rethrows(p)
        ELSE Resolves(p, getTopCountriesResult(getStatisticsResult(c.reply.val), c.limit))
     /\ UNCHANGED <<client, isConnected, db, ncalls, applied, returned, resets, resetClean, optimizedVars>>

\* resetStatistics lines 96-102
ResetStatisticsReturns(p) ==
  LET c == calls[p]
  IN /\ c.pc = "replied"
     /\ c.op = "resetStatistics"
     /\ IF c.reply.kind = "error"
        THEN Rethrows(p)
        ELSE Resolves(p, resetStatisticsResult(c.reply.val))
     /\ UNCHANGED <<client, isConnected, db, ncalls, applied, returned, resets, resetClean, optimizedVars>>

\* ------------------------------------ database.js, isHealthy and disconnect
pingCommand == [name |-> "ping"]

quitCommand == [name |-> "quit"]

\* A method returns without having sent a command.
ReturnsAtOnce(p, op, value) ==
  calls' = [calls EXCEPT ![p] =
              [IdleCall EXCEPT !.op = op, !.outcome = [status |-> "ok", val |-> value]]]

\* Variant: the client is pinged whatever isConnected says.
isHealthySkipsPing_Never == FALSE

\* isHealthy line 71: !this.client || !this.isConnected
isHealthySkipsPing == client = "null" \/ ~isConnected

\* isHealthy(), up to its await (lines 70-74)
IsHealthy(p) ==
  /\ calls[p].pc = "idle"
  /\ ncalls' = ncalls + 1
  /\ IF isHealthySkipsPing
     THEN ReturnsAtOnce(p, "isHealthy", FALSE)
     ELSE Sends(p, NoRequest, "isHealthy", Null, NoLimit, pingCommand)
  /\ UNCHANGED <<client, isConnected, db, applied, returned, resets, resetClean, optimizedVars>>

\* The backend answers PING.
BackendPing(p) ==
  /\ calls[p].pc = "sent"
  /\ calls[p].cmd.name = "ping"
  /\ Replies(p, [kind |-> "string", val |-> <<"P","O","N","G">>])
  /\ UNCHANGED <<client, isConnected, db, ncalls, applied, returned, resets, resetClean, optimizedVars>>

\* isHealthy lines 75-78: true after the ping, false when it threw.
IsHealthyReturns(p) ==
  LET c == calls[p]
  IN /\ c.pc = "replied"
     /\ c.op = "isHealthy"
     /\ Resolves(p, c.reply.kind # "error")
     /\ UNCHANGED <<client, isConnected, db, ncalls, applied, returned, resets, resetClean, optimizedVars>>

\* disconnect(), up to its await (lines 56-57): quit is sent only when the
\* client exists and isConnected is true.
Disconnect(p) ==
  /\ calls[p].pc = "idle"
  /\ ncalls' = ncalls + 1
  /\ IF client # "null" /\ isConnected
     THEN Sends(p, NoRequest, "disconnect", Null, NoLimit, quitCommand)
     ELSE ReturnsAtOnce(p, "disconnect", Undefined)
  /\ UNCHANGED <<client, isConnected, db, applied, returned, resets, resetClean, optimizedVars>>

\* The backend answers QUIT and the connection is closed.
BackendQuit(p) ==
  /\ calls[p].pc = "sent"
  /\ calls[p].cmd.name = "quit"
  /\ Replies(p, [kind |-> "string", val |-> <<"O","K">>])
  /\ sockets' = [sockets EXCEPT !.store = "quit"]
  /\ UNCHANGED <<client, isConnected, db, ncalls, applied, returned, resets, resetClean,
                 optimized, cacheEntry, now, picked, server>>

\* disconnect lines 57-59: after quit isConnected is false; a quit that
\* threw leaves it.
DisconnectReturns(p) ==
  LET c == calls[p]
  IN /\ c.pc = "replied"
     /\ c.op = "disconnect"
     /\ IF c.reply.kind = "error"
        THEN Rethrows(p) /\ UNCHANGED isConnected
        ELSE Resolves(p, Undefined) /\ isConnected' = FALSE
     /\ UNCHANGED <<client, db, ncalls, applied, returned, resets, resetClean, optimizedVars>>

\* ------------------------------------------------------------ server.js
Signals == {"SIGTERM", "SIGINT"}

\* startServer lines 135-157: after redisClient.connect() resolved the HTTP
\* server is created and listens; when it rejected the process exits 1.
StartServer ==
  /\ server.exit = "none"
  /\ server.http = "undefined"
  /\ client = "null"
  /\ client' = "created"
  /\ \/ /\ isConnected' = TRUE
        /\ sockets' = [sockets EXCEPT !.store = "open"]
        /\ server' = [server EXCEPT !.http = "listening"]
     \/ /\ isConnected' = FALSE
        /\ server' = [server EXCEPT !.exit = "1"]
        /\ UNCHANGED sockets
  /\ UNCHANGED <<db, calls, ncalls, applied, returned, resets, resetClean,
                 optimized, cacheEntry, now, picked>>

\* gracefulShutdown lines 110-126, up to server.close: on an undefined
\* `server` the call throws a TypeError, which the uncaughtException
\* handler (lines 160-163) answers with process.exit(1); else the server
\* stops listening and the callback waits for its 'close'.
gracefulShutdownServer(srv) ==
  IF srv.http = "undefined"
  THEN [srv EXCEPT !.exit = "1"]
  ELSE [srv EXCEPT !.http = IF @ = "listening" THEN "closing" ELSE @,
                   !.callbacks = @ + 1]

\* process.on('SIGTERM') / process.on('SIGINT') (lines 129-130)
GracefulShutdown(signal) ==
  /\ server.exit = "none"
  /\ server' = [gracefulShutdownServer(server) EXCEPT !.signal = signal, !.signals = @ + 1]
  /\ UNCHANGED <<client, isConnected, db, calls, ncalls, applied, returned, resets, resetClean,
                 optimized, cacheEntry, now, sockets, picked>>

\* The HTTP server has closed its last connection and emits 'close'.
ServerClosed ==
  /\ server.exit = "none"
  /\ server.http = "closing"
  /\ server' = [server EXCEPT !.http = "closed"]
  /\ UNCHANGED <<client, isConnected, db, calls, ncalls, applied, returned, resets, resetClean,
                 optimized, cacheEntry, now, sockets, picked>>

\* The close callback of the first signal (lines 113-124), up to its await:
\* redisClient.disconnect() is called.
ShutdownDisconnects(p) ==
  /\ server.exit = "none"
  /\ server.http = "closed"
  /\ server.callbacks > 0
  /\ calls[p].op # "disconnect"
  /\ Disconnect(p)

\* The close callback after its await (lines 118-123): process.exit(0)
\* after disconnect() resolved, process.exit(1) after it threw.
ShutdownExits(p) ==
  /\ server.exit = "none"
  /\ calls[p].op = "disconnect"
  /\ calls[p].pc = "idle"
  /\ server' = [server EXCEPT !.exit = IF calls[p].outcome.status = "ok" THEN "0" ELSE "1"]
  /\ UNCHANGED <<client, isConnected, db, calls, ncalls, applied, returned, resets, resetClean,
                 optimized, cacheEntry, now, sockets, picked>>

\* ------------------------------------- validation.js and routes/visits.js
IsLetter(c) == \E i \in 1..26 : c = UpperLetters[i] \/ c = LowerLetters[i]

\* schemas.trackVisit and schemas.countryParam (lines 89-111): countryCode
\* is required, a string, of length 2, matching /^[a-zA-Z]{2}$/.
countryCodeSchemaError(countryCode) ==
  \/ countryCode.type # "string"
  \/ Len(countryCode.val) # 2
  \/ \E i \in DOMAIN countryCode.val : ~IsLetter(countryCode.val[i])

RECURSIVE LeadingDigits(_)
\* The length of the leading run of digits of s.
LeadingDigits(s) ==
  IF s # <<>> /\ IsDigit(Head(s)) THEN 1 + LeadingDigits(Tail(s)) ELSE 0

\* Joi.number() on a string: white space around, a sign, digits and an
\* optional fraction are converted; anything else is not a number.  `whole`
\* says the fraction is absent or zero.
JoiNumber(s) ==
  LET t == Trim(s)
      u == IF t # <<>> /\ Head(t) \in {"-", "+"} THEN Tail(t) ELSE t
      k == LeadingDigits(u)
      rest == SubSeq(u, k + 1, Len(u))
      frac == IF rest = <<>> THEN <<>> ELSE Tail(rest)
  IN IF k = 0 \/ (rest # <<>> /\ (Head(rest) # "." \/ LeadingDigits(frac) # Len(frac)))
     THEN [ok |-> FALSE, n |-> 0, whole |-> FALSE]
     ELSE [ok |-> TRUE, n |-> ParseInt(SubSeq(t, 1, Len(t) - Len(rest))),
           whole |-> \A i \in DOMAIN frac : frac[i] = "0"]

\* Variant: the limit has no lower bound.
topCountriesQuery_NoMin(limit) ==
  IF limit = Undefined THEN [error |-> FALSE, value |-> 10]
  ELSE LET num == JoiNumber(limit.val)
       IN IF ~num.ok \/ ~num.whole \/ num.n > 100
          THEN [error |-> TRUE, value |-> 0]
          ELSE [error |-> FALSE, value |-> num.n]

\* schemas.topCountriesQuery (lines 113-125): limit is a number, an
\* integer, at least 1, at most 100, 10 when absent.
topCountriesQuery(limit) ==
  IF limit = Undefined THEN [error |-> FALSE, value |-> 10]
  ELSE LET num == JoiNumber(limit.val)
       IN IF ~num.ok \/ ~num.whole \/ num.n < 1 \/ num.n > 100
          THEN [error |-> TRUE, value |-> 0]
          ELSE [error |-> FALSE, value |-> num.n]

\* validateBody / validateParams / validateQuery lines 11-24, 38-51, 65-78:
\* the request is answered with 400 and the route handler is not called.
ValidationRejects(p, req, message) ==
  /\ calls[p].pc = "idle"
  /\ calls' = [calls EXCEPT ![p] =
                 [IdleCall EXCEPT !.req = req, !.res = [status |-> 400, data |-> message]]]
  /\ UNCHANGED <<client, isConnected, db, ncalls, applied, returned, resets, resetClean, optimizedVars>>

\* router.post('/track') with body {countryCode}
PostTrack(p, countryCode) ==
  LET req == [route |-> "POST /track", input |-> countryCode]
  IN IF countryCodeSchemaError(countryCode)
     THEN ValidationRejects(p, req, "Validation error")
     ELSE trackVisit(p, req, countryCode)

\* router.get('/stats/:countryCode')
GetStatsCountry(p, countryCode) ==
  LET req == [route |-> "GET /stats/:countryCode", input |-> countryCode]
  IN IF countryCodeSchemaError(countryCode)
     THEN ValidationRejects(p, req, "Parameter validation error")
     ELSE getCountryStats(p, req, countryCode)

\* router.get('/top') with query {limit}: the handler passes the validated
\* limit on.
GetTop(p, limit) ==
  LET req == [route |-> "GET /top", input |-> limit]
      validated == topCountriesQuery(limit)
  IN IF validated.error
     THEN ValidationRejects(p, req, "Query validation error")
     ELSE ReadAll(p, req, "getTopCountries", [given |-> TRUE, n |-> validated.value])

\* router.get('/stats')
GetStats(p) ==
  ReadAll(p, [route |-> "GET /stats", input |-> Undefined], "getStatistics", NoLimit)

\* router.get('/total')
GetTotal(p) ==
  ReadAll(p, [route |-> "GET /total", input |-> Undefined], "getTotalVisits", NoLimit)

\* router.delete('/reset')
DeleteReset(p) == resetStatistics(p, [route |-> "DELETE /reset", input |-> Undefined])

\* notFound line 57: new Error(`Not Found - ${req.originalUrl}`)
NotFoundError(url) == [message |-> "Not Found - ", detail |-> url, code |-> "none"]

\* app.use(notFound); app.use(errorHandler) (server.js lines 104-108) for a
\* request no route matched: notFound sets res.status(404) and passes the
\* error on; errorHandler sets the status anew from the error alone and
\* sends the response.
NotFound(p, url) ==
  /\ calls[p].pc = "idle"
  /\ ncalls' = ncalls + 1
  /\ Rejects(p, [route |-> "no route", input |-> Str(url)], "notFound", Null, NoLimit,
             NotFoundError(url))
  /\ UNCHANGED <<client, isConnected, db, applied, returned, resets, resetClean, optimizedVars>>

\* ------------------------------------- OptimizedRedisClient (part_002)
\* createConnectionPool lines 75-94: maxConnections new clients are pushed
\* to the pool, whatever it holds; `opened` is the number of pool clients
\* created before, the new ones are numbered from there.
createConnectionPool(pool, opened) == pool \o [i \in 1..maxConnections |-> opened + i]

\* The connections of the pool clients after createConnectionPool: the
\* connect() of the new client number `failing` rejected (0: of none).
PoolSockets(socks, failing) ==
  socks \o [i \in 1..maxConnections |-> IF i = failing THEN "none" ELSE "open"]

\* connect() lines 12-73: a new main client replaces this.client; its
\* connect() rejects (an 'error' handler may have run), or it resolves (the
\* 'connect' and 'ready' handlers have run) and createConnectionPool pushes
\* maxConnections pool clients, whose connect() all resolve or one rejects.
optimizedConnect(failing) ==
  /\ \/ /\ failing = 0
        /\ \E connected \in {optimized.isConnected, FALSE} :
             optimized' = [optimized EXCEPT !.client = "created", !.isConnected = connected]
        /\ sockets' = [sockets EXCEPT !.main = Append(@, "none")]
        /\ UNCHANGED picked
     \/ /\ optimized' = [client |-> "created", isConnected |-> TRUE,
                         connectionPool |-> createConnectionPool(optimized.connectionPool,
                                                                 Len(sockets.pool))]
        /\ sockets' = [sockets EXCEPT !.main = Append(@, "open"),
                                      !.pool = PoolSockets(@, failing)]
        /\ picked' = <<>>
  /\ UNCHANGED <<client, isConnected, db, calls, ncalls, applied, returned, resets, resetClean,
                 cacheEntry, now, server>>

\* The first connect(), every pool client connecting.
OptimizedConnect ==
  /\ optimized.client = "null"
  /\ optimizedConnect(0)

\* client.on('error') / client.on('end') of the main client
OptimizedOnError ==
  /\ optimized.client = "created"
  /\ optimized.isConnected
  /\ optimized' = [optimized EXCEPT !.isConnected = FALSE]
  /\ UNCHANGED <<client, isConnected, db, calls, ncalls, applied, returned, resets, resetClean, cacheEntry, now, lifeVars>>

\* The connection of this.client.
MainSocket == IF sockets.main = <<>> THEN "none" ELSE sockets.main[Len(sockets.main)]

\* client.on('end') (lines 58-61): the connection of the main client is
\* gone for good.
OptimizedOnEnd ==
  /\ optimized.client = "created"
  /\ optimized.isConnected
  /\ MainSocket = "open"
  /\ optimized' = [optimized EXCEPT !.isConnected = FALSE]
  /\ sockets' = [sockets EXCEPT !.main[Len(sockets.main)] = "ended"]
  /\ UNCHANGED <<client, isConnected, db, calls, ncalls, applied, returned, resets, resetClean,
                 cacheEntry, now, picked, server>>

\* client.on('connect') / client.on('ready') (lines 48-56) after the main
\* client reconnected.
OptimizedOnReady ==
  /\ optimized.client = "created"
  /\ ~optimized.isConnected
  /\ MainSocket = "open"
  /\ optimized' = [optimized EXCEPT !.isConnected = TRUE]
  /\ UNCHANGED <<client, isConnected, db, calls, ncalls, applied, returned, resets, resetClean, cacheEntry, now, lifeVars>>

\* getClient lines 96-101
optimizedGetClientThrows == optimized.client = "null" \/ ~optimized.isConnected

\* getPoolClient lines 103-112: with an empty pool the main client, else the
\* head of the pool, which moves to its end.
getPoolClientThrows == optimized.connectionPool = <<>> /\ optimizedGetClientThrows

\* Variant: the head of the pool stays where it is.
getPoolClientPool_NoRotation(pool) == pool

getPoolClientPool(pool) == IF pool = <<>> THEN pool ELSE Append(Tail(pool), Head(pool))

\* What getPoolClient returns: the number of a pool client, MainClient for
\* this.client, Thrown when getClient() throws.
MainClient == 0

Thrown == -1

getPoolClientResult ==
  IF optimized.connectionPool = <<>>
  THEN (IF optimizedGetClientThrows THEN Thrown ELSE MainClient)
  ELSE Head(optimized.connectionPool)

\* getPoolClient() called on its own
GetPoolClient ==
  /\ picked' = Append(picked, getPoolClientResult)
  /\ optimized' = [optimized EXCEPT !.connectionPool = getPoolClientPool(@)]
  /\ UNCHANGED <<client, isConnected, db, calls, ncalls, applied, returned, resets, resetClean,
                 cacheEntry, now, sockets, server>>

\* quit() of a client whose connection is not open.
ClientClosedError == [message |-> "The client is closed", detail |-> <<>>, code |-> "none"]

\* disconnect line 145: quit() is called on every client in connectionPool.
poolQuitCommand(pool) == [name |-> "quitPool", clients |-> pool]

\* Variant: the main client is quit whatever isConnected says.
optimizedDisconnectSkipsMain_Never == FALSE

\* disconnect line 138, negated: the main client is not quit.
optimizedDisconnectSkipsMain == optimized.client = "null" \/ ~optimized.isConnected

\* disconnect(), up to its first await (lines 137-146): quit of the main
\* client when it exists and isConnected is true, else the quits of the
\* pool clients at once; with no client to quit nothing is waited for and
\* connectionPool stays empty.
OptimizedDisconnect(p) ==
  /\ calls[p].pc = "idle"
  /\ ncalls' = ncalls + 1
  /\ IF optimizedDisconnectSkipsMain
     THEN IF optimized.connectionPool = <<>>
          THEN ReturnsAtOnce(p, "optimizedDisconnect", Undefined)
          ELSE Sends(p, NoRequest, "optimizedDisconnect", Null, NoLimit,
                     poolQuitCommand(optimized.connectionPool))
     ELSE Sends(p, NoRequest, "optimizedDisconnect", Null, NoLimit, quitCommand)
  /\ UNCHANGED <<client, isConnected, db, applied, returned, resets, resetClean, optimizedVars>>

\* The quit of the main client: an open connection is closed; on a
\* connection that is not open quit rejects or resolves.
BackendMainQuit(p) ==
  /\ calls[p].pc = "sent"
  /\ calls[p].op = "optimizedDisconnect"
  /\ calls[p].cmd.name = "quit"
  /\ IF MainSocket = "open"
     THEN /\ Replies(p, [kind |-> "string", val |-> <<"O","K">>])
          /\ sockets' = [sockets EXCEPT !.main[Len(sockets.main)] = "quit"]
     ELSE /\ \/ Replies(p, [kind |-> "string", val |-> <<"O","K">>])
             \/ Replies(p, [kind |-> "error", val |-> ClientClosedError])
          /\ UNCHANGED sockets
  /\ UNCHANGED <<client, isConnected, db, ncalls, applied, returned, resets, resetClean,
                 optimized, cacheEntry, now, picked, server>>

\* The pool clients whose connection is open.
OpenIn(clients) == {i \in DOMAIN clients : sockets.pool[clients[i]] = "open"}

\* The connections after quit() on each of the clients.
QuitSockets(socks, clients) ==
  [i \in DOMAIN socks |->
     IF socks[i] = "open" /\ \E j \in DOMAIN clients : clients[j] = i THEN "quit" ELSE socks[i]]

\* The quits of the pool clients (Promise.all, line 146): every open
\* connection is closed; a client whose connection is not open rejects its
\* quit or resolves it.
BackendPoolQuit(p) ==
  LET clients == calls[p].cmd.clients
  IN /\ calls[p].pc = "sent"
     /\ calls[p].cmd.name = "quitPool"
     /\ sockets' = [sockets EXCEPT !.pool = QuitSockets(@, clients)]
     /\ \/ Replies(p, [kind |-> "string", val |-> <<"O","K">>])
        \/ /\ OpenIn(clients) # DOMAIN clients
           /\ Replies(p, [kind |-> "error", val |-> ClientClosedError])
     /\ UNCHANGED <<client, isConnected, db, ncalls, applied, returned, resets, resetClean,
                    optimized, cacheEntry, now, picked, server>>

\* disconnect after each await (lines 139-147): after the quit of the main
\* client isConnected is false and the pool clients are quit; after their
\* quits connectionPool is empty; a quit that rejected ends the call there.
OptimizedDisconnectContinues(p) ==
  LET c == calls[p]
  IN /\ c.pc = "replied"
     /\ c.op = "optimizedDisconnect"
     /\ IF c.reply.kind = "error"
        THEN Rethrows(p) /\ UNCHANGED <<optimized, picked>>
        ELSE IF c.cmd.name = "quit"
             THEN /\ optimized' = [optimized EXCEPT !.isConnected = FALSE]
                  /\ calls' = [calls EXCEPT ![p].pc = "sent", ![p].reply = NoReply,
                                             ![p].cmd = poolQuitCommand(optimized.connectionPool)]
                  /\ UNCHANGED picked
             ELSE /\ optimized' = [optimized EXCEPT !.connectionPool = <<>>]
                  /\ picked' = <<>>
                  /\ Resolves(p, Undefined)
     /\ UNCHANGED <<client, isConnected, db, ncalls, applied, returned, resets, resetClean,
                    cacheEntry, now, sockets, server>>

\* Variant: del is queued as well.
SupportedTypes_WithDel == {"hincrby", "hget", "hgetall", "del"}

\* The operation types batchOperations queues.
SupportedTypes == {"hincrby", "hget", "hgetall"}

UnsupportedOperationError(type) ==
  [message |-> "Unsupported operation type: ", detail |-> Chars(type), code |-> "none"]

\* visit.countryCode.toLowerCase() on a value that is not a string
NotAFunctionError ==
  [message |-> "visit.countryCode.toLowerCase is not a function", detail |-> <<>>, code |-> "none"]

execCommand(operations) == [name |-> "exec", ops |-> operations]

\* batchOperations(operations), up to its await (lines 115-134): the first
\* operation of an unsupported type throws before anything is sent.
batchOperations(p, op, operations) ==
  /\ calls[p].pc = "idle"
  /\ ncalls' = ncalls + 1
  /\ picked' = Append(picked, getPoolClientResult)
  /\ IF getPoolClientThrows
     THEN /\ Rejects(p, NoRequest, op, Null, NoLimit, NotConnectedError)
          /\ UNCHANGED optimized
     ELSE /\ optimized' = [optimized EXCEPT !.connectionPool = getPoolClientPool(@)]
          /\ LET bad == { i \in DOMAIN operations : operations[i].type \notin SupportedTypes }
             IN IF bad # {}
                THEN Rejects(p, NoRequest, op, Null, NoLimit,
                             UnsupportedOperationError(
                               operations[CHOOSE i \in bad : \A j \in bad : i <= j].type))
                ELSE Sends(p, NoRequest, op, Null, NoLimit, execCommand(operations))
  /\ UNCHANGED <<client, isConnected, db, applied, returned, resets, resetClean, cacheEntry, now,
                 sockets, server>>

BatchOperations(p, operations) == batchOperations(p, "batchOperations", operations)

\* batchTrackVisits line 167: visit.count || 1
batchTrackVisitsValue(count) == IF count.given /\ count.n # 0 THEN count.n ELSE 1

\* batchTrackVisits lines 163-168
batchTrackVisitsOperations(visits) ==
  [i \in DOMAIN visits |->
     [type |-> "hincrby", key |-> STATS_KEY,
      field |-> ToLowerCase(visits[i].countryCode.val),
      value |-> batchTrackVisitsValue(visits[i].count)]]

\* batchTrackVisits(visits), up to the await of batchOperations
BatchTrackVisits(p, visits) ==
  IF \E i \in DOMAIN visits : visits[i].countryCode.type # "string"
  THEN /\ calls[p].pc = "idle"
       /\ ncalls' = ncalls + 1
       /\ Rejects(p, NoRequest, "batchTrackVisits", Null, NoLimit, NotAFunctionError)
       /\ UNCHANGED <<client, isConnected, db, applied, returned, resets, resetClean, optimizedVars>>
  ELSE batchOperations(p, "batchTrackVisits", batchTrackVisitsOperations(visits))

\* One queued command executed on database d: the database after it and
\* its reply.
ExecOneDb(d, o) ==
  IF o.type = "hincrby" THEN [d EXCEPT ![o.key] = HIncrByHash(@, o.field, o.value)] ELSE d

ExecOneReply(d, o) ==
  CASE o.type = "hincrby" -> HIncrByValue(d[o.key], o.field, o.value)
    [] o.type = "hget" -> IF o.field \in DOMAIN d[o.key] THEN d[o.key][o.field] ELSE <<>>
    [] OTHER -> d[o.key]

RECURSIVE ExecDb(_, _)
ExecDb(d, operations) ==
  IF operations = <<>> THEN d ELSE ExecDb(ExecOneDb(d, Head(operations)), Tail(operations))

RECURSIVE ExecReplies(_, _)
ExecReplies(d, operations) ==
  IF operations = <<>> THEN <<>>
  ELSE <<ExecOneReply(d, Head(operations))>>
         \o ExecReplies(ExecOneDb(d, Head(operations)), Tail(operations))

RECURSIVE ExecApplied(_, _, _)
\* The counts the HINCRBYs of a transaction return, appended per field.
ExecApplied(a, d, operations) ==
  IF operations = <<>> THEN a
  ELSE LET o == Head(operations)
       IN ExecApplied(IF o.type = "hincrby" /\ o.field \in DOMAIN a
                      THEN [a EXCEPT ![o.field] = Append(@, ExecOneReply(d, o))]
                      ELSE a,
                      ExecOneDb(d, o), Tail(operations))

\* The backend executes MULTI ... EXEC: the queued commands run in order,
\* with no other command between them.
BackendExec(p) ==
  LET c == calls[p].cmd
  IN /\ calls[p].pc = "sent"
     /\ c.name = "exec"
     /\ db' = ExecDb(db, c.ops)
     /\ Replies(p, [kind |-> "list", val |-> ExecReplies(db, c.ops)])
     /\ applied' = ExecApplied(applied, db, c.ops)
     /\ resetClean' = (resetClean /\ \A i \in DOMAIN c.ops : c.ops[i].type # "hincrby")
     /\ UNCHANGED <<client, isConnected, ncalls, returned, resets, optimizedVars>>

\* batchOperations line 134 / batchTrackVisits line 170: the replies of
\* exec are returned as they are.
BatchReturns(p) ==
  LET c == calls[p]
  IN /\ c.pc = "replied"
     /\ c.op \in {"batchOperations", "batchTrackVisits"}
     /\ IF c.reply.kind = "error"
        THEN Rethrows(p)
        ELSE Resolves(p, c.reply.val)
     /\ UNCHANGED <<client, isConnected, db, ncalls, applied, returned, resets, resetClean, optimizedVars>>

\* JSON.stringify of an object with integer values, given as its
\* <<key, value>> entries in insertion order (NaN is written null).  The
\* keys of this model need no escaping.
RECURSIVE JsonMembers(_)
JsonMembers(entries) ==
  IF entries = <<>> THEN <<>>
  ELSE <<"\"">> \o Head(entries)[1] \o <<"\"", ":">>
       \o (IF Head(entries)[2] = NaN THEN <<"n","u","l","l">> ELSE ToDecimal(Head(entries)[2]))
       \o (IF Tail(entries) = <<>> THEN <<>> ELSE <<",">> \o JsonMembers(Tail(entries)))

JsonStringify(entries) == <<"{">> \o JsonMembers(entries) \o <<"}">>

\* The position of the first character of s that is in set stop.
FirstOf(s, stop) == CHOOSE i \in 1..Len(s) : s[i] \in stop /\ \A j \in 1..(i - 1) : s[j] \notin stop

RECURSIVE JsonParseMembers(_)
\* JSON.parse from the first member on: "key":value followed by , or }.
JsonParseMembers(s) ==
  IF s = <<>> \/ Head(s) = "}" THEN <<>>
  ELSE LET t == IF Head(s) = "," THEN Tail(s) ELSE s
           k == FirstOf(Tail(t), {"\""})
           key == SubSeq(t, 2, k)
           after == SubSeq(t, k + 3, Len(t))
           v == FirstOf(after, {",", "}"})
       IN <<<<key, ParseInt(SubSeq(after, 1, v - 1))>>>>
            \o JsonParseMembers(SubSeq(after, v, Len(after)))

JsonParse(s) == JsonParseMembers(Tail(s))

\* getStatisticsCached(ttl = 30) line 174
DefaultTtl == 30

EffectiveTtl(ttl) == IF ttl.given THEN ttl.n ELSE DefaultTtl

getCommand == [name |-> "get", key |-> CACHE_KEY]

setExCommand(seconds, value) ==
  [name |-> "setEx", key |-> CACHE_KEY, seconds |-> seconds, value |-> value]

\* getStatisticsCached(ttl), up to its first await (lines 175-180)
GetStatisticsCached(p, ttl) ==
  /\ calls[p].pc = "idle"
  /\ ncalls' = ncalls + 1
  /\ IF optimizedGetClientThrows
     THEN Rejects(p, NoRequest, "getStatisticsCached", Null, ttl, NotConnectedError)
     ELSE Sends(p, NoRequest, "getStatisticsCached", Null, ttl, getCommand)
  /\ UNCHANGED <<client, isConnected, db, applied, returned, resets, resetClean, optimizedVars>>

\* Variant: an entry is served however old it is.
CacheHit_NoExpiry == cacheEntry.present

\* The key stats_cache exists: it was set and has not expired.
CacheHit == cacheEntry.present /\ now < cacheEntry.expireAt

\* The backend executes GET stats_cache: the string, or nil.
BackendGet(p) ==
  /\ calls[p].pc = "sent"
  /\ calls[p].cmd.name = "get"
  /\ calls' = [calls EXCEPT
                 ![p].pc = "replied",
                 ![p].reply = IF CacheHit THEN [kind |-> "string", val |-> cacheEntry.value]
                              ELSE [kind |-> "nil", val |-> <<>>],
                 ![p].snap = IF CacheHit THEN cacheEntry.of ELSE @,
                 ![p].issued = Append(@, calls[p].cmd)]
  /\ UNCHANGED <<client, isConnected, db, ncalls, applied, returned, resets, resetClean, optimizedVars>>

InvalidExpireError ==
  [message |-> "ERR invalid expire time in 'setex' command", detail |-> <<>>, code |-> "none"]

\* The backend executes SETEX stats_cache seconds value: the key holds the
\* value for that many seconds; seconds <= 0 is an error.
BackendSetEx(p) ==
  LET c == calls[p].cmd
  IN /\ calls[p].pc = "sent"
     /\ c.name = "setEx"
     /\ IF c.seconds <= 0
        THEN /\ calls' = [calls EXCEPT ![p].pc = "replied",
                                       ![p].reply = [kind |-> "error", val |-> InvalidExpireError],
                                       ![p].issued = Append(@, c)]
             /\ UNCHANGED cacheEntry
        ELSE /\ calls' = [calls EXCEPT ![p].pc = "replied",
                                       ![p].reply = [kind |-> "string", val |-> <<"O","K">>],
                                       ![p].issued = Append(@, c)]
             /\ cacheEntry' = [present |-> TRUE, value |-> c.value, expireAt |-> now + c.seconds,
                               of |-> calls[p].snap, storedAt |-> now, ttl |-> c.seconds,
                               writes |-> [resets |-> resets, applied |-> applied]]
     /\ UNCHANGED <<client, isConnected, db, ncalls, applied, returned, resets, resetClean, optimized, now, lifeVars>>

\* getStatisticsCached after each await (lines 181-199): a cached string is
\* parsed and returned; without one the hash is read, its values parsed,
\* the result stored under stats_cache and returned.
GetStatisticsCachedContinues(p) ==
  LET c == calls[p]
  IN /\ c.pc = "replied"
     /\ c.op = "getStatisticsCached"
     /\ IF c.reply.kind = "error"
        THEN Rethrows(p)
        ELSE CASE c.cmd.name = "get" ->
                    IF c.reply.kind = "string" /\ c.reply.val # <<>>
                    THEN Resolves(p, AsMapping(JsonParse(c.reply.val)))
                    ELSE calls' = [calls EXCEPT ![p].pc = "sent", ![p].reply = NoReply,
                                                ![p].cmd = getStatisticsCommand]
               [] c.cmd.name = "hGetAll" ->
                    calls' = [calls EXCEPT
                                ![p].pc = "sent", ![p].reply = NoReply,
                                ![p].result = getStatisticsResult(c.reply.val),
                                ![p].cmd = setExCommand(EffectiveTtl(c.limit),
                                             JsonStringify(getStatisticsResult(c.reply.val)))]
               [] OTHER -> Resolves(p, AsMapping(c.result))
     /\ UNCHANGED <<client, isConnected, db, ncalls, applied, returned, resets, resetClean, optimizedVars>>

\* Time passes.
Tick ==
  /\ \E t \in Times : t > now /\ now' = t
  /\ UNCHANGED <<client, isConnected, db, calls, ncalls, applied, returned, resets, resetClean, optimized, cacheEntry, lifeVars>>

\* ------------------------------------------------------ specifications
Backend(p) ==
  \/ BackendHIncrBy(p)
  \/ BackendHGet(p)
  \/ BackendHGetAll(p)
  \/ BackendDel(p)
  \/ BackendRejects(p)

Returns(p) ==
  \/ TrackVisitReturns(p)
  \/ GetCountryStatsReturns(p)
  \/ GetStatisticsReturns(p)
  \/ GetTotalVisitsReturns(p)
  \/ GetTopCountriesReturns(p)
  \/ ResetStatisticsReturns(p)

\* One store call started by caller p, its arguments drawn from the given
\* codes and limits.
Call(p, codes, limits) ==
  \/ \E countryCode \in codes : TrackVisit(p, countryCode)
  \/ \E countryCode \in codes : GetCountryStats(p, countryCode)
  \/ GetStatistics(p)
  \/ GetTotalVisits(p)
  \/ \E limit \in limits : GetTopCountries(p, limit)
  \/ ResetStatistics(p)

\* The arguments concurrent callers use.
ConcurrentCodes ==
  { Str(<<"u","s">>), Str(<<"U","S">>), Str(<<"g","b">>), Str(<<" ","u","s">>), Null }

ConcurrentLimits == { NoLimit, [given |-> TRUE, n |-> 1] }

Next ==
  \/ Connect
  \/ OnError
  \/ OnEnd
  \/ OnReady
  \/ \E p \in Callers : ncalls < MaxCalls /\ Call(p, ConcurrentCodes, ConcurrentLimits)
  \/ \E p \in Callers : Backend(p)
  \/ \E p \in Callers : Returns(p)

\* The store under concurrent callers, from an empty table.
Spec == Init /\ [][Next]_vars

\* The store used by one caller: every call returns before the next starts.
NextSeq ==
  \/ Connect
  \/ OnError
  \/ OnEnd
  \/ OnReady
  \/ ncalls < MaxSeqCalls /\ Call("c1", CodeInputs, Limits)
  \/ Backend("c1")
  \/ Returns("c1")

SpecSeq == Init /\ [][NextSeq]_vars

\* The tables a run may find in Redis when it starts: any counts >= 1 on
\* the lowercase codes of known countries.
AggFields == { ToLowerCase(code) : code \in countries }

AggTables ==
  UNION { [S -> { ToDecimal(n) : n \in CountSamples }] : S \in SUBSET AggFields }

UpTo(n) == [i \in 1..n |-> i]

InitAgg ==
  /\ InitOptimized
  /\ client = "created"
  /\ isConnected = TRUE
  /\ \E h \in AggTables :
       /\ db = [k \in Keys |-> IF k = STATS_KEY THEN h ELSE EmptyHash]
       /\ applied = [f \in HistoryFields |->
                       IF f \in DOMAIN h THEN UpTo(ParseInt(h[f])) ELSE <<>>]
       /\ returned = [f \in HistoryFields |->
                       IF f \in DOMAIN h THEN UpTo(ParseInt(h[f])) ELSE <<>>]
  /\ calls = [p \in Callers |-> IdleCall]
  /\ ncalls = 0
  /\ resets = 0
  /\ resetClean = FALSE

\* The read operations of one caller over such a table.
NextAgg ==
  \/ OnError
  \/ OnReady
  \/ \E countryCode \in CodeInputs :
       ncalls < MaxAggCalls /\ GetCountryStats("c1", countryCode)
  \/ ncalls < MaxAggCalls /\ GetStatistics("c1")
  \/ ncalls < MaxAggCalls /\ GetTotalVisits("c1")
  \/ \E limit \in Limits : ncalls < MaxAggCalls /\ GetTopCountries("c1", limit)
  \/ BackendHGet("c1")
  \/ BackendHGetAll("c1")
  \/ BackendRejects("c1")
  \/ GetCountryStatsReturns("c1")
  \/ GetStatisticsReturns("c1")
  \/ GetTotalVisitsReturns("c1")
  \/ GetTopCountriesReturns("c1")

SpecAgg == InitAgg /\ [][NextAgg]_vars

\* The store and the OptimizedRedisClient used by one caller on one Redis.
VisitLists == UNION { [1..n -> VisitInputs] : n \in 1..MaxVisits }

OperationLists ==
  { <<[type |-> "hincrby", key |-> STATS_KEY, field |-> <<"g","b">>, value |-> 0]>>,
    <<[type |-> "hget", key |-> STATS_KEY, field |-> <<"u","s">>, value |-> 0],
      [type |-> "hgetall", key |-> STATS_KEY, field |-> <<>>, value |-> 0]>>,
    <<[type |-> "hincrby", key |-> STATS_KEY, field |-> <<"u","s">>, value |-> 1],
      [type |-> "del", key |-> STATS_KEY, field |-> <<>>, value |-> 0]>> }

BatchCodes == { Str(<<"u","s">>), Str(<<" ","u","s">>) }

NextBatch ==
  \/ Connect
  \/ OptimizedConnect
  \/ OptimizedOnError
  \/ \E countryCode \in BatchCodes :
       ncalls < MaxBatchCalls /\ TrackVisit("c1", countryCode)
  \/ \E countryCode \in BatchCodes :
       ncalls < MaxBatchCalls /\ GetCountryStats("c1", countryCode)
  \/ ncalls < MaxBatchCalls /\ GetStatistics("c1")
  \/ ncalls < MaxBatchCalls /\ ResetStatistics("c1")
  \/ \E visits \in VisitLists :
       ncalls < MaxBatchCalls /\ BatchTrackVisits("c1", visits)
  \/ \E operations \in OperationLists :
       ncalls < MaxBatchCalls /\ BatchOperations("c1", operations)
  \/ Backend("c1")
  \/ BackendExec("c1")
  \/ TrackVisitReturns("c1")
  \/ GetCountryStatsReturns("c1")
  \/ GetStatisticsReturns("c1")
  \/ ResetStatisticsReturns("c1")
  \/ BatchReturns("c1")

SpecBatch == Init /\ [][NextBatch]_vars

\* The requests of one client of the HTTP server.
HttpCodes ==
  { Undefined, Null, Num42, Str(<<>>), Str(<<"u">>), Str(<<"U","S">>), Str(<<"u","s">>),
    Str(<<"z","z">>), Str(<<"u","1">>), Str(<<" ","u","s">>),
    Str(<<"I","N","V","A","L","I","D">>) }

\* A route parameter is a non-empty string.
HttpParams == { v \in HttpCodes : v.type = "string" /\ v.val # <<>> }

HttpLimits ==
  { Undefined, Str(<<"1">>), Str(<<"2">>), Str(<<"1","0","0">>), Str(<<"0">>),
    Str(<<"1","0","1">>), Str(<<"-","1">>), Str(<<"1",".","5">>), Str(<<"2",".","0">>),
    Str(<<"a","b","c">>), Str(<<>>) }

\* What a command may reject with while the backend is unavailable.
HttpBackendErrors ==
  BackendErrors \cup
  { [message |-> "connect ECONNREFUSED 127.0.0.1:6379", detail |-> <<>>, code |-> "ECONNREFUSED"],
    [message |-> "Connection timeout", detail |-> <<>>, code |-> "none"],
    [message |-> "Redis connection failed", detail |-> <<>>, code |-> "none"] }

\* Paths no route matches.
UnmatchedUrls == { <<"/","n","o","p","e">>, <<"/","a","p","i","/","R","e","d","i","s">> }

NextHttp ==
  \/ Connect
  \/ OnError
  \/ OnEnd
  \/ OnReady
  \/ \E countryCode \in HttpCodes : ncalls < MaxHttpCalls /\ PostTrack("c1", countryCode)
  \/ \E countryCode \in HttpParams : ncalls < MaxHttpCalls /\ GetStatsCountry("c1", countryCode)
  \/ \E limit \in HttpLimits : ncalls < MaxHttpCalls /\ GetTop("c1", limit)
  \/ ncalls < MaxHttpCalls /\ GetStats("c1")
  \/ ncalls < MaxHttpCalls /\ GetTotal("c1")
  \/ ncalls < MaxHttpCalls /\ DeleteReset("c1")
  \/ \E url \in UnmatchedUrls : ncalls < MaxHttpCalls /\ NotFound("c1", url)
  \/ BackendHIncrBy("c1")
  \/ BackendHGet("c1")
  \/ BackendHGetAll("c1")
  \/ BackendDel("c1")
  \/ BackendRejectsWith("c1", HttpBackendErrors)
  \/ Returns("c1")

SpecHttp == Init /\ [][NextHttp]_vars

\* The cache and the store used by two callers on one Redis.
CacheTtls == { NoLimit, [given |-> TRUE, n |-> 1], [given |-> TRUE, n |-> 0] }

InitCache ==
  /\ InitOptimized
  /\ client = "created"
  /\ isConnected = TRUE
  /\ db = [k \in Keys |-> EmptyHash]
  /\ calls = [p \in Callers |-> IdleCall]
  /\ ncalls = 0
  /\ applied = [f \in HistoryFields |-> <<>>]
  /\ returned = [f \in HistoryFields |-> <<>>]
  /\ resets = 0
  /\ resetClean = FALSE

NextCache ==
  \/ OptimizedConnect
  \/ Tick
  \/ \E p \in Callers : ncalls < MaxCacheCalls /\ TrackVisit(p, Str(<<"u","s">>))
  \/ \E p \in Callers : \E ttl \in CacheTtls :
       ncalls < MaxCacheCalls /\ GetStatisticsCached(p, ttl)
  \/ \E p \in Callers : BackendHIncrBy(p)
  \/ \E p \in Callers : BackendGet(p)
  \/ \E p \in Callers : BackendHGetAll(p)
  \/ \E p \in Callers : BackendSetEx(p)
  \/ \E p \in Callers : BackendRejects(p)
  \/ \E p \in Callers : TrackVisitReturns(p)
  \/ \E p \in Callers : GetStatisticsCachedContinues(p)

SpecCache == InitCache /\ [][NextCache]_vars

\* The cache read by one caller that also tracks visits and resets.
StaleTtls == { NoLimit, [given |-> TRUE, n |-> 1] }

NextStale ==
  \/ OptimizedConnect
  \/ Tick
  \/ ncalls < MaxStaleCalls /\ TrackVisit("c1", Str(<<"u","s">>))
  \/ ncalls < MaxStaleCalls /\ ResetStatistics("c1")
  \/ ncalls < MaxStaleCalls /\ GetStatistics("c1")
  \/ \E ttl \in StaleTtls : ncalls < MaxStaleCalls /\ GetStatisticsCached("c1", ttl)
  \/ BackendHIncrBy("c1")
  \/ BackendDel("c1")
  \/ BackendHGetAll("c1")
  \/ BackendGet("c1")
  \/ BackendSetEx("c1")
  \/ BackendRejects("c1")
  \/ TrackVisitReturns("c1")
  \/ ResetStatisticsReturns("c1")
  \/ GetStatisticsReturns("c1")
  \/ GetStatisticsCachedContinues("c1")

SpecStale == InitCache /\ [][NextStale]_vars

\* The database.js client through its life: connect(), the events of its
\* connection, store calls, isHealthy() and disconnect() of one caller.
NextConn ==
  \/ ConnectOpens
  \/ ConnectionError
  \/ ConnectionEnd
  \/ ConnectionReady
  \/ ncalls < MaxConnCalls /\ TrackVisit("c1", Str(<<"u","s">>))
  \/ ncalls < MaxConnCalls /\ GetStatistics("c1")
  \/ ncalls < MaxConnCalls /\ IsHealthy("c1")
  \/ ncalls < MaxConnCalls /\ Disconnect("c1")
  \/ BackendHIncrBy("c1")
  \/ BackendHGetAll("c1")
  \/ BackendPing("c1")
  \/ BackendQuit("c1")
  \/ BackendRejects("c1")
  \/ TrackVisitReturns("c1")
  \/ GetStatisticsReturns("c1")
  \/ IsHealthyReturns("c1")
  \/ DisconnectReturns("c1")

SpecConn == Init /\ [][NextConn]_vars

\* connect() of the pooled client: of the new pool clients none, the first
\* or the last fails to connect.
PoolFailures == {0, 1, maxConnections}

PoolOperations == { <<[type |-> "hincrby", key |-> STATS_KEY, field |-> <<"u","s">>, value |-> 1]>> }

\* The pooled client through its life: connect() calls, repeated or
\* failing, the events of the main connection, getPoolClient(),
\* batchOperations() and disconnect() of one caller.
NextPool ==
  \/ \E failing \in PoolFailures :
       Len(sockets.main) < MaxConnects /\ optimizedConnect(failing)
  \/ OptimizedOnError
  \/ OptimizedOnEnd
  \/ OptimizedOnReady
  \/ Len(picked) < MaxPoolPicks /\ GetPoolClient
  \/ \E operations \in PoolOperations :
       ncalls < MaxPoolCalls /\ BatchOperations("c1", operations)
  \/ ncalls < MaxPoolCalls /\ OptimizedDisconnect("c1")
  \/ BackendExec("c1")
  \/ BackendMainQuit("c1")
  \/ BackendPoolQuit("c1")
  \/ BackendRejects("c1")
  \/ BatchReturns("c1")
  \/ OptimizedDisconnectContinues("c1")

SpecPool == Init /\ [][NextPool]_vars

\* The length a run of getPoolClient() calls may reach.
PicksLeft == IF optimized.connectionPool = <<>> THEN MaxEmptyPicks ELSE MaxPicks

\* Runs of getPoolClient() calls on the pool a connect() created while
\* there was none, or on no pool, with the events of the main connection, a batchOperations() and a
\* disconnect() call among them.
NextRobin ==
  \/ \E failing \in PoolFailures :
       /\ optimized.connectionPool = <<>>
       /\ Len(sockets.main) < MaxRobinConnects
       /\ optimizedConnect(failing)
  \/ OptimizedOnError
  \/ OptimizedOnEnd
  \/ OptimizedOnReady
  \/ Len(picked) < PicksLeft /\ GetPoolClient
  \/ \E operations \in PoolOperations :
       ncalls < MaxRobinCalls /\ Len(picked) < PicksLeft /\ BatchOperations("c1", operations)
  \/ ncalls < MaxRobinCalls /\ OptimizedDisconnect("c1")
  \/ BackendExec("c1")
  \/ BackendMainQuit("c1")
  \/ BackendPoolQuit("c1")
  \/ BackendRejects("c1")
  \/ BatchReturns("c1")
  \/ OptimizedDisconnectContinues("c1")

SpecRobin == Init /\ [][NextRobin]_vars

\* The server process from its start: startServer, the events of the Redis
\* connection, signals, the close of the HTTP server and the shutdown
\* callback, until the process exits.
NextServer ==
  \/ StartServer
  \/ server.exit = "none" /\ ConnectionError
  \/ server.exit = "none" /\ ConnectionEnd
  \/ server.exit = "none" /\ ConnectionReady
  \/ \E signal \in Signals : server.signals < MaxSignals /\ GracefulShutdown(signal)
  \/ ServerClosed
  \/ ShutdownDisconnects("c1")
  \/ server.exit = "none" /\ BackendQuit("c1")
  \/ server.exit = "none" /\ BackendRejects("c1")
  \/ server.exit = "none" /\ DisconnectReturns("c1")
  \/ ShutdownExits("c1")

SpecServer == Init /\ [][NextServer]_vars

\* =============================================================== claims
\* The count a read of field f finds in hash h.
CountOf(h, f) == IF f \in DOMAIN h THEN ParseInt(h[f]) ELSE 0

Table == db[STATS_KEY]

Quiescent == \A p \in Callers : calls[p].pc = "idle"

us == <<"u","s">>

gb == <<"g","b">>

C2_SequentialCounts ==
  /\ \A f \in HistoryFields : returned[f] = UpTo(Len(returned[f]))
  /\ LET c == calls["c1"]
     IN (c.op = "getCountryStats" /\ c.pc = "idle" /\ c.outcome.status = "ok")
          => c.outcome.val = Len(returned[ToLowerCase(c.code.val)])

C2_Witness ==
  /\ returned[us] = <<1, 2, 3>>
  /\ resets = 0
  /\ calls["c1"].op = "getCountryStats"
  /\ calls["c1"].code = Str(<<"U","S">>)
  /\ calls["c1"].outcome.status = "ok"
  /\ calls["c1"].outcome.val = 3

\* A step of the trackVisit call of caller p: it sends its command, the
\* backend executes it, or it returns.
TrackVisitStep(p) ==
  \/ calls[p].pc = "idle" /\ calls'[p].pc = "sent" /\ calls'[p].op = "trackVisit"
  \/ calls[p].op = "trackVisit" /\ calls[p].pc = "sent" /\ calls'[p].pc = "replied"
  \/ calls[p].op = "trackVisit" /\ calls[p].pc = "replied" /\ calls'[p].pc = "idle"

TrackVisitCode(p) == IF calls[p].pc = "idle" THEN calls'[p].code ELSE calls[p].code

\* C3: field independence.  No step of a trackVisit(c1) call changes the
\* count of a field other than the lowercased c1.
C3_FieldIndependence ==
  [][ \A p \in Callers :
        TrackVisitStep(p) =>
          \A g \in (HistoryFields \cup DOMAIN Table \cup DOMAIN Table') \ {ToLowerCase(TrackVisitCode(p).val)} :
            CountOf(Table', g) = CountOf(Table, g) ]_vars

\* The backend has executed the increments of two overlapping calls for
\* different countries.
C3_Witness ==
  \E p, q \in Callers :
    /\ calls[p].op = "trackVisit" /\ calls[p].pc = "replied" /\ calls[p].reply.kind = "int"
    /\ calls[q].op = "trackVisit" /\ calls[q].pc = "replied" /\ calls[q].reply.kind = "int"
    /\ calls[p].code = Str(<<" ","u","s">>)
    /\ calls[q].code = Str(us)
    /\ CountOf(Table, us) = 1
    /\ CountOf(Table, <<" ","u","s">>) = 1

C4Invalid == { Str(<<"I","N","V","A","L","I","D">>), Str(<<>>), Null, Num42 }

\* C4: trackVisit and getCountryStats with a code that fails validation
\* reject with 'Invalid country code' carrying the input as given, send no
\* command and change nothing in Redis, whatever the connection state.
C4_InvalidRejected ==
  /\ [](\A p \in Callers :
          (calls[p].op \in {"trackVisit", "getCountryStats"} /\ calls[p].code \in C4Invalid)
            => /\ calls[p].pc = "idle"
               /\ calls[p].cmd.name = "none"
               /\ calls[p].outcome.status = "error"
               /\ calls[p].outcome.val.message = "Invalid country code: "
               /\ calls[p].outcome.val.detail = calls[p].code.val)
  /\ [][ (ncalls' # ncalls /\ \A q \in Callers : calls'[q].pc = calls[q].pc) => db' = db ]_vars

\* An invalid code was rejected as invalid while no client existed.
C4_Witness ==
  /\ client = "null"
  /\ calls["c1"].op = "trackVisit"
  /\ calls["c1"].code = Str(<<"I","N","V","A","L","I","D">>)
  /\ calls["c1"].outcome.status = "error"
  /\ calls["c1"].outcome.val.detail = <<"I","N","V","A","L","I","D">>

\* v spells the country code `code` in some mix of upper and lower case.
SpellsCode(v, code) ==
  /\ v.type = "string"
  /\ Len(v.val) = Len(code)
  /\ \A i \in 1..Len(code) : v.val[i] \in {code[i], ToLowerCase(code)[i]}

C5Variants == { v \in CodeInputs : \E code \in countries : SpellsCode(v, code) }

\* The lowercase code of the country v spells.
C5Field(v) == ToLowerCase(CHOOSE code \in countries : SpellsCode(v, code))

\* C5: case normalization.  trackVisit with any upper/lower-case variant of
\* a country code increments the one lowercase field of that country in
\* visit_stats by one, and returns the lowercase code as `country`.
C5_CaseNormalization ==
  /\ [](\A p \in Callers :
          (calls[p].op = "trackVisit" /\ calls[p].code \in C5Variants)
            => /\ calls[p].pc # "idle"
                    => calls[p].cmd = [name |-> "hIncrBy", key |-> "visit_stats",
                                       field |-> C5Field(calls[p].code), by |-> 1]
               /\ (calls[p].pc = "idle" /\ calls[p].outcome.status = "ok")
                    => calls[p].outcome.val.country = C5Field(calls[p].code))
  /\ [][ \A p \in Callers :
           (/\ calls[p].op = "trackVisit" /\ calls[p].code \in C5Variants
            /\ calls[p].pc = "sent" /\ calls'[p].pc = "replied" /\ calls'[p].reply.kind = "int")
             => /\ CountOf(Table', C5Field(calls[p].code)) = CountOf(Table, C5Field(calls[p].code)) + 1
                /\ calls'[p].reply.val = CountOf(Table', C5Field(calls[p].code)) ]_vars

\* After one visit was counted for us, trackVisit("US") returned 2 for us.
C5_Witness ==
  /\ calls["c1"].op = "trackVisit" /\ calls["c1"].code = Str(<<"U","S">>)
  /\ calls["c1"].outcome.status = "ok"
  /\ calls["c1"].outcome.val = [success |-> TRUE, country |-> us, count |-> 2]
  /\ returned[us] = <<1, 2>>
  /\ Table = [f \in {us} |-> <<"2">>]

\* The mapping getStatistics returns when the table is h.
StatsOf(h) ==
  AsMapping(getStatisticsResult(HGetAllReply(h, CHOOSE o \in Orders(DOMAIN h) : TRUE)))

RECURSIVE SumOver(_, _)
\* The sum of the values mapping m holds for the keys in S.
SumOver(m, S) ==
  IF S = {} THEN 0
  ELSE LET x == CHOOSE x \in S : TRUE IN m[x] + SumOver(m, S \ {x})

Succeeded(p, op) ==
  calls[p].op = op /\ calls[p].pc = "idle" /\ calls[p].outcome.status = "ok"

\* C6: getTotalVisits returns the sum of all values of the mapping
\* getStatistics returns for the table it read, and 0 for an empty table.
C6_TotalIsSum ==
  \A p \in Callers :
    Succeeded(p, "getTotalVisits") =>
      /\ calls[p].outcome.val = SumOver(StatsOf(calls[p].snap), DOMAIN StatsOf(calls[p].snap))
      /\ DOMAIN calls[p].snap = {} => calls[p].outcome.val = 0

\* The total of a table of three countries with counts 10, 2 and 1.
C6_Witness ==
  /\ Succeeded("c1", "getTotalVisits")
  /\ calls["c1"].outcome.val = 13
  /\ Cardinality(DOMAIN calls["c1"].snap) = 3

\* C7: getTopCountries(k) returns at most k entries (none for k <= 0; an
\* absent k is 10), ordered by count descending, each an entry of
\* getStatistics with the same count, and nothing for an empty table.
C7_TopCountries ==
  \A p \in Callers :
    Succeeded(p, "getTopCountries") =>
      LET r == calls[p].outcome.val
          k == EffectiveLimit(calls[p].limit)
          stats == StatsOf(calls[p].snap)
      IN /\ Len(r) <= (IF k < 0 THEN 0 ELSE k)
         /\ \A i, j \in DOMAIN r : i < j => r[i].count >= r[j].count
         /\ \A i \in DOMAIN r :
              r[i].country \in DOMAIN stats /\ stats[r[i].country] = r[i].count
         /\ DOMAIN stats = {} => r = <<>>

\* C8: getTopCountries returns nothing for a limit <= 0, behaves as limit 10
\* for an absent limit, and returns every entry for a limit not smaller than
\* the table.
C8_LimitEdgeCases ==
  \A p \in Callers :
    Succeeded(p, "getTopCountries") =>
      LET r == calls[p].outcome.val
          limit == calls[p].limit
          size == Cardinality(DOMAIN calls[p].snap)
      IN /\ (limit.given /\ limit.n <= 0) => r = <<>>
         /\ ~limit.given => Len(r) = (IF size < 10 THEN size ELSE 10)
         /\ (limit.given /\ limit.n >= size /\ limit.n > 0) => Len(r) = size

\* C9: a read the backend serves after a reset and before any later
\* increment finds nothing: getStatistics returns the empty mapping,
\* getTotalVisits 0 and getCountryStats(c) 0 for every valid c, and the
\* table is empty in every such state.
C9_ResetClears ==
  /\ resetClean => DOMAIN Table = {}
  /\ \A p \in Callers :
       (calls[p].clean /\ calls[p].pc = "idle" /\ calls[p].outcome.status = "ok")
         => /\ calls[p].op = "getStatistics" => DOMAIN calls[p].outcome.val = {}
            /\ calls[p].op = "getTotalVisits" => calls[p].outcome.val = 0
            /\ calls[p].op = "getCountryStats" => calls[p].outcome.val = 0

\* A reset removed a non-empty table and a later getCountryStats of a
\* country returned 0.
C9_Witness ==
  \E p, q \in Callers :
    /\ Succeeded(q, "resetStatistics")
    /\ DOMAIN calls[q].snap # {}
    /\ Succeeded(p, "getCountryStats")
    /\ calls[p].clean
    /\ calls[p].outcome.val = 0
    /\ resetClean

\* C10: resetStatistics is idempotent.  Whatever DEL replies (0 for an
\* absent table included) the call succeeds with {success: true, message:
\* 'Statistics reset successfully'}; the table is absent after the DEL and a
\* DEL on an absent table changes nothing in Redis.
C10_ResetIdempotent ==
  [][ \A p \in Callers :
        calls[p].op = "resetStatistics" =>
          /\ (calls[p].pc = "sent" /\ calls'[p].pc = "replied" /\ calls'[p].reply.kind = "int")
               => /\ DOMAIN Table' = {}
                  /\ DOMAIN Table = {} => (db' = db /\ calls'[p].reply.val = 0)
          /\ (calls[p].pc = "replied" /\ calls'[p].pc = "idle" /\ calls[p].reply.kind = "int")
               => /\ calls'[p].outcome.status = "ok"
                  /\ calls'[p].outcome.val =
                       [success |-> TRUE, message |-> "Statistics reset successfully"] ]_vars

\* Two resets in a row: the second found the table absent and succeeded.
C10_Witness ==
  \E p \in Callers :
    /\ Succeeded(p, "resetStatistics")
    /\ DOMAIN calls[p].snap = {}
    /\ resets = 2
    /\ calls[p].outcome.val.success

\* C11: getCountryStats(c) for a valid code c returns a non-negative
\* integer: 0 when the field of c is not in the table it read, otherwise the
\* count stored in the field.
C11_CountryStats ==
  \A p \in Callers :
    Succeeded(p, "getCountryStats") =>
      LET f == ToLowerCase(calls[p].code.val)
          count == calls[p].outcome.val
      IN /\ count >= 0
         /\ count = CountOf(calls[p].snap, f)
         /\ f \notin DOMAIN calls[p].snap => count = 0

\* The step is the DEL of a resetStatistics call.
ResetStep ==
  \E p \in Callers :
    calls[p].op = "resetStatistics" /\ calls[p].pc = "sent" /\ calls'[p].pc = "replied"

\* C12: monotonic counts.  Whatever trackVisit, batchTrackVisits and
\* batchOperations write, the count of a country never decreases from one
\* state to the next; only the DEL of resetStatistics lowers a count.
C12_MonotonicCounts ==
  [][ (\E f \in HistoryFields \cup DOMAIN Table :
         CountOf(Table', f) < CountOf(Table, f)) => ResetStep ]_vars

\* C13: a field is in visit_stats only if a visit was tracked for it since
\* the last reset and its value is an integer >= 1; getStatistics returns
\* exactly the fields of the table it read with their integer values, the
\* empty mapping for an empty table.
C13_FieldPresence ==
  /\ \A f \in DOMAIN Table :
       /\ f \in HistoryFields /\ Len(applied[f]) >= 1
       /\ ParseInt(Table[f]) >= 1
       /\ ToDecimal(ParseInt(Table[f])) = Table[f]
  /\ \A p \in Callers :
       Succeeded(p, "getStatistics") =>
         /\ DOMAIN calls[p].outcome.val = DOMAIN calls[p].snap
         /\ \A f \in DOMAIN calls[p].snap :
              calls[p].outcome.val[f] = ParseInt(calls[p].snap[f])

\* C14: every field name written to visit_stats is the lowercase
\* two-letter code of a known country, whatever accepted input it was
\* written for (inputs the validator accepts after trimming included).
C14_FieldNames ==
  \A f \in DOMAIN Table :
    /\ Len(f) = 2
    /\ f = ToLowerCase(f)
    /\ \E code \in countries : ToLowerCase(code) = f

StoreOps ==
  {"trackVisit", "getStatistics", "getCountryStats", "getTotalVisits",
   "getTopCountries", "resetStatistics"}

\* C15: when the backend command of a store operation fails, the operation
\* rejects with that same error; it resolves to no value at all.
C15_ErrorPropagation ==
  [][ \A p \in Callers :
        (/\ calls[p].op \in StoreOps
         /\ calls[p].pc = "replied" /\ calls[p].reply.kind = "error"
         /\ calls'[p] # calls[p])
          => /\ calls'[p].pc = "idle"
             /\ calls'[p].op = calls[p].op
             /\ calls'[p].outcome.status = "error"
             /\ calls'[p].outcome.val = calls[p].reply.val ]_vars

\* getTotalVisits rejected with the error its HGETALL failed with.
C15_Witness ==
  /\ calls["c1"].op = "getTotalVisits"
  /\ calls["c1"].pc = "idle"
  /\ calls["c1"].issued = <<[name |-> "hGetAll", key |-> "visit_stats", field |-> <<>>, by |-> 0]>>
  /\ calls["c1"].outcome.status = "error"
  /\ calls["c1"].outcome.val.message = "Socket closed unexpectedly"

\* The one command a successful call of a store operation issues.
C16Command(c) ==
  CASE c.op = "trackVisit"
         -> [name |-> "hIncrBy", key |-> "visit_stats", field |-> ToLowerCase(c.code.val), by |-> 1]
    [] c.op = "getCountryStats"
         -> [name |-> "hGet", key |-> "visit_stats", field |-> ToLowerCase(c.code.val), by |-> 0]
    [] c.op = "resetStatistics"
         -> [name |-> "del", key |-> "visit_stats", field |-> <<>>, by |-> 0]
    [] OTHER -> [name |-> "hGetAll", key |-> "visit_stats", field |-> <<>>, by |-> 0]

\* C16: a call of a store operation issues at most one backend command, a
\* call that succeeds exactly the one of its operation; a failed command is
\* not issued again, and a trackVisit call changes the table in at most one
\* step, which adds 1 to one count.
C16_OneCommand ==
  /\ [](\A p \in Callers :
          calls[p].op \in StoreOps =>
            /\ Len(calls[p].issued) <= 1
            /\ Len(calls[p].issued) = 1 => calls[p].issued[1] = C16Command(calls[p])
            /\ (calls[p].pc = "idle" /\ calls[p].outcome.status = "ok")
                 => Len(calls[p].issued) = 1
            /\ calls[p].pc = "sent" => calls[p].issued = <<>>)
  /\ [][ \A p \in Callers :
           (calls[p].op = "trackVisit" /\ calls[p].pc # "idle" /\ Table' # Table)
             => /\ calls[p].issued = <<>> /\ Len(calls'[p].issued) = 1
                /\ \A f \in HistoryFields \cup DOMAIN Table' :
                     CountOf(Table', f) =
                       CountOf(Table, f) + (IF f = calls[p].cmd.field THEN 1 ELSE 0) ]_vars

\* One trackVisit call failed after its one command, the next succeeded
\* with its one command.
C16_Witness ==
  /\ Succeeded("c1", "trackVisit")
  /\ calls["c1"].issued = <<[name |-> "hIncrBy", key |-> "visit_stats", field |-> us, by |-> 1]>>
  /\ ncalls = 2
  /\ Table = [f \in {us} |-> <<"1">>]

\* A request has been answered.
Answered(p) == calls[p].req.route # "none" /\ calls[p].pc = "idle"

\* The country code is missing, is not exactly two letters, or is two
\* letters that are the code of no known country.
C17Invalid(v) ==
  \/ v.type # "string"
  \/ Len(v.val) # 2
  \/ \E i \in DOMAIN v.val : \A j \in 1..26 : v.val[i] \notin {UpperLetters[j], LowerLetters[j]}
  \/ \A code \in countries : ToLowerCase(code) # ToLowerCase(v.val)

C17Routes == {"POST /track", "GET /stats/:countryCode"}

\* C17: a POST /api/visits/track or GET /api/visits/stats/:countryCode
\* request with such a country code is answered with a status 4xx, and
\* nothing it does changes visit_stats.
C17_InvalidIs4xx ==
  /\ [](\A p \in Callers :
          (calls[p].req.route \in C17Routes /\ C17Invalid(calls[p].req.input))
            => /\ calls[p].pc = "idle"
               /\ calls[p].res.status \in 400..499)
  /\ [][ (\E p \in Callers :
            /\ calls'[p] # calls[p]
            /\ calls'[p].req.route \in C17Routes /\ C17Invalid(calls'[p].req.input))
          => db' = db ]_vars

\* The request failed because the backend is unavailable: the client was
\* not connected, or its command was rejected.
C18Unavailable(p) ==
  /\ Answered(p)
  /\ calls[p].outcome.status = "error"
  /\ \/ calls[p].outcome.val.message = "Redis client not connected"
     \/ Len(calls[p].issued) = 1

\* C18: every request that fails because the backend is unavailable is
\* answered with status 503.
C18_UnavailableIs503 ==
  \A p \in Callers : C18Unavailable(p) => calls[p].res.status = 503

\* The limits GET /top may pass on, with their values.
C19Value(q) ==
  CASE q = Undefined -> 10
    [] q = Str(<<"1">>) -> 1
    [] q = Str(<<"2">>) -> 2
    [] q = Str(<<"2",".","0">>) -> 2
    [] q = Str(<<"1","0","0">>) -> 100
    [] OTHER -> 0

\* C19: GET /api/visits/top hands getTopCountries an integer limit in
\* 1..100 only, 10 for an absent limit; the limit is echoed in the
\* response; a limit that is not a number, not an integer or out of range
\* is answered with 400 and no store call is made.
C19_TopLimit ==
  \A p \in Callers :
    calls[p].req.route = "GET /top" =>
      LET c == calls[p]
          v == C19Value(c.req.input)
      IN /\ v = 0 => (c.op = "none" /\ c.pc = "idle" /\ c.issued = <<>> /\ c.res.status = 400)
         /\ v # 0 => (c.op = "getTopCountries" /\ c.limit = [given |-> TRUE, n |-> v])
         /\ c.op # "none" => (c.op = "getTopCountries" /\ c.limit.given /\ c.limit.n \in 1..100)
         /\ Succeeded(p, "getTopCountries")
              => (c.res.status = 200 /\ c.res.data.limit = v /\ Len(c.res.data.countries) <= v)

\* GET /top without a limit read a table that is not empty and was answered
\* with limit 10.
C19_Witness ==
  /\ calls["c1"].req = [route |-> "GET /top", input |-> Undefined]
  /\ Succeeded("c1", "getTopCountries")
  /\ calls["c1"].res.data.limit = 10
  /\ DOMAIN calls["c1"].snap # {}

\* C20: getStatisticsCached is a read-through cache of the table.  A call
\* that succeeds either issued GET stats_cache alone and returns the entry
\* it was served, or issued GET, HGETALL visit_stats and SETEX stats_cache
\* with its ttl (30 when absent) and returns the integers of the hash it
\* read; the mapping it returns is the content of a table visit_stats has
\* held (counts only grow here, so none exceeds the present one); GET
\* serves the entry exactly while fewer than ttl seconds have passed since
\* it was stored, and a served entry is returned without a further command.
C20_ReadThroughCache ==
  /\ [](\A p \in Callers :
          Succeeded(p, "getStatisticsCached") =>
            LET c == calls[p]
            IN /\ c.outcome.val = StatsOf(c.snap)
               /\ \A f \in DOMAIN c.snap : CountOf(c.snap, f) <= CountOf(Table, f)
               /\ \/ c.issued = <<[name |-> "get", key |-> "stats_cache"]>>
                  \/ /\ Len(c.issued) = 3
                     /\ c.issued[1] = [name |-> "get", key |-> "stats_cache"]
                     /\ c.issued[2] = [name |-> "hGetAll", key |-> "visit_stats", field |-> <<>>, by |-> 0]
                     /\ c.issued[3].name = "setEx" /\ c.issued[3].key = "stats_cache"
                     /\ c.issued[3].seconds = (IF c.limit.given THEN c.limit.n ELSE 30)
                     /\ AsMapping(JsonParse(c.issued[3].value)) = c.outcome.val)
  /\ [][ \A p \in Callers :
           (/\ calls[p].op = "getStatisticsCached" /\ calls[p].cmd.name = "get"
            /\ calls[p].pc = "sent" /\ calls'[p].pc = "replied"
            /\ calls'[p].reply.kind # "error")
             => IF cacheEntry.present /\ now - cacheEntry.storedAt < cacheEntry.ttl
                THEN calls'[p].reply = [kind |-> "string", val |-> cacheEntry.value]
                ELSE calls'[p].reply.kind = "nil" ]_vars
  /\ [][ \A p \in Callers :
           (/\ calls[p].op = "getStatisticsCached" /\ calls[p].cmd.name = "get"
            /\ calls[p].pc = "replied" /\ calls[p].reply.kind = "string"
            /\ calls'[p] # calls[p])
             => /\ calls'[p].pc = "idle"
                /\ calls'[p].outcome.status = "ok"
                /\ calls'[p].outcome.val = AsMapping(JsonParse(calls[p].reply.val)) ]_vars

\* An entry stored for the empty table was served two seconds later, after
\* a visit had been counted.
C20_Witness ==
  \E p, q \in Callers :
    /\ Succeeded(p, "getStatisticsCached")
    /\ calls[p].issued = <<[name |-> "get", key |-> "stats_cache"]>>
    /\ DOMAIN calls[p].outcome.val = {}
    /\ CountOf(Table, us) = 1
    /\ now = 2
    /\ cacheEntry.storedAt = 0

\* C21: for every limit >= 1 (an absent limit is 10) getTopCountries returns
\* exactly min(limit, number of countries of the table it read) entries, of
\* pairwise distinct countries, and no country of the table left out of the
\* result has a count greater than the count of a country in the result.
C21_TopNExact ==
  \A p \in Callers :
    (Succeeded(p, "getTopCountries") /\ EffectiveLimit(calls[p].limit) >= 1) =>
      LET r == calls[p].outcome.val
          k == EffectiveLimit(calls[p].limit)
          stats == StatsOf(calls[p].snap)
          size == Cardinality(DOMAIN stats)
          included == { r[i].country : i \in DOMAIN r }
      IN /\ Len(r) = (IF k < size THEN k ELSE size)
         /\ \A i, j \in DOMAIN r : i # j => r[i].country # r[j].country
         /\ included \subseteq DOMAIN stats
         /\ \A f \in DOMAIN stats \ included :
              \A i \in DOMAIN r : stats[f] <= r[i].count

\* getTopCountries(2) over a table of three countries with counts 1, 2
\* and 10 left out the country counted once.
C21_Witness ==
  /\ Succeeded("c1", "getTopCountries")
  /\ calls["c1"].limit = [given |-> TRUE, n |-> 2]
  /\ Cardinality(DOMAIN calls["c1"].snap) = 3
  /\ Len(calls["c1"].outcome.val) = 2
  /\ calls["c1"].outcome.val[1].count = 10
  /\ calls["c1"].outcome.val[2].count = 2
  /\ \E f \in DOMAIN calls["c1"].snap : CountOf(calls["c1"].snap, f) = 1

\* C22: trackVisit and resetStatistics interleaved in any way.  The count
\* HINCRBY returns to a trackVisit(c) call is the number of increments of
\* the field of c the backend applied since the last reset it applied, this
\* one included; the call returns that count, which is at least 1; and once
\* every call has completed the table holds for each field exactly the
\* increments applied after the last reset.
C22_CountsSinceReset ==
  /\ [](\A p \in Callers : Succeeded(p, "trackVisit") => calls[p].outcome.val.count >= 1)
  /\ [](Quiescent =>
          \A f \in HistoryFields \cup DOMAIN Table : CountOf(Table, f) = Len(applied[f]))
  /\ [][ \A p \in Callers :
           (/\ calls[p].op = "trackVisit"
            /\ calls[p].pc = "sent" /\ calls'[p].pc = "replied" /\ calls'[p].reply.kind = "int")
             => /\ Len(applied'[calls[p].cmd.field]) = Len(applied[calls[p].cmd.field]) + 1
                /\ calls'[p].reply.val = Len(applied'[calls[p].cmd.field]) ]_vars
  /\ [][ \A p \in Callers :
           (/\ calls[p].op = "trackVisit"
            /\ calls[p].pc = "replied" /\ calls[p].reply.kind = "int" /\ calls'[p].pc = "idle")
             => /\ calls'[p].outcome.status = "ok"
                /\ calls'[p].outcome.val.count = calls[p].reply.val ]_vars

\* A reset removed a table that held a visit; the next increment was the
\* first the backend applied after that reset and its call returned 1.
C22_Witness ==
  \E p, q \in Callers :
    /\ Succeeded(p, "trackVisit")
    /\ calls[p].clean
    /\ calls[p].outcome.val.count = 1
    /\ Succeeded(q, "resetStatistics")
    /\ DOMAIN calls[q].snap # {}
    /\ resets = 1
    /\ Table = [f \in {us} |-> <<"1">>]

\* The step starts a call of caller p, or moves the call p runs.
Moves(p) ==
  \/ ncalls' # ncalls /\ calls[p].pc = "idle" /\ calls'[p].op # "none"
  \/ calls'[p].pc # calls[p].pc

\* The call a step of caller p belongs to.
StepOp(p) == IF calls[p].pc = "idle" THEN calls'[p].op ELSE calls[p].op

\* GET stats_cache of a getStatisticsCached call is executed while the
\* entry is there and fewer than ttl seconds have passed since it was stored.
ServedStep(p) ==
  /\ calls[p].op = "getStatisticsCached" /\ calls[p].cmd.name = "get"
  /\ calls[p].pc = "sent" /\ calls'[p].pc = "replied" /\ calls'[p].reply.kind # "error"
  /\ cacheEntry.present /\ now - cacheEntry.storedAt < cacheEntry.ttl

\* A reset or an increment was applied to visit_stats after the entry was
\* stored.
WrittenSinceCached == cacheEntry.writes # [resets |-> resets, applied |-> applied]

\* C23 (as amended): no step of a trackVisit or resetStatistics call changes
\* the stats_cache entry; a getStatisticsCached call served before the entry
\* expires gets the string stored and returns the mapping of the table the
\* entry was computed from, whatever was written since; that mapping differs
\* from the one getStatistics returns exactly when the content of the table
\* differs from the cached one.
C23_StaleCache ==
  /\ [][ \A p \in Callers :
           (Moves(p) /\ StepOp(p) \in {"trackVisit", "resetStatistics"})
             => cacheEntry' = cacheEntry ]_vars
  /\ [][ \A p \in Callers :
           ServedStep(p) =>
             /\ calls'[p].reply = [kind |-> "string", val |-> cacheEntry.value]
             /\ AsMapping(JsonParse(cacheEntry.value)) = StatsOf(cacheEntry.of)
             /\ (StatsOf(cacheEntry.of) # StatsOf(Table)) <=> (cacheEntry.of # Table) ]_vars
  /\ [][ \A p \in Callers :
           (/\ calls[p].op = "getStatisticsCached" /\ calls[p].cmd.name = "get"
            /\ calls[p].pc = "replied" /\ calls[p].reply.kind = "string"
            /\ calls'[p].pc # "replied")
             => /\ calls'[p].outcome.status = "ok"
                /\ calls'[p].outcome.val = StatsOf(cacheEntry.of)
                /\ calls'[p].issued = <<[name |-> "get", key |-> "stats_cache"]>> ]_vars

\* The entry cached for {us: 1} was returned after a reset had emptied the
\* table.
C23_Witness ==
  /\ Succeeded("c1", "getStatisticsCached")
  /\ calls["c1"].issued = <<[name |-> "get", key |-> "stats_cache"]>>
  /\ calls["c1"].outcome.val = [f \in {us} |-> 1]
  /\ WrittenSinceCached
  /\ resets = 1
  /\ DOMAIN Table = {}

\* C23 (as stated): the mapping a getStatisticsCached call is served after
\* a reset or further visits always differs from what getStatistics returns.
C23_AlwaysDiffers ==
  [][ \A p \in Callers :
        (ServedStep(p) /\ WrittenSinceCached)
          => AsMapping(JsonParse(calls'[p].reply.val)) # StatsOf(Table) ]_vars

\* getClient() returns the client.
C24Connected == client = "created" /\ isConnected

\* The step starts a call of caller p, the other callers standing still.
Starts(p) ==
  /\ ncalls' # ncalls
  /\ calls[p].pc = "idle"
  /\ \A q \in Callers \ {p} : calls'[q].pc = calls[q].pc /\ calls'[q].op = calls[q].op

\* C24: a command is sent only in states where connect() has created the
\* client and isConnected is true: there a store operation sends its
\* command, in every other state it throws 'Redis client not connected'
\* having sent nothing, and isHealthy() returns false without a ping;
\* isConnected becomes true only by a connection event and false only by a
\* connection event or by disconnect() after its quit.
C24_ConnectedOnly ==
  /\ [][ \A p \in Callers :
           Starts(p) =>
             /\ calls'[p].pc = "sent" => C24Connected
             /\ calls'[p].op \in StoreOps =>
                  IF C24Connected
                  THEN calls'[p].pc = "sent"
                  ELSE /\ calls'[p].pc = "idle" /\ calls'[p].issued = <<>>
                       /\ calls'[p].outcome.status = "error"
                       /\ calls'[p].outcome.val.message = "Redis client not connected"
             /\ (calls'[p].op = "isHealthy" /\ ~C24Connected) =>
                  /\ calls'[p].pc = "idle" /\ calls'[p].issued = <<>>
                  /\ calls'[p].outcome = [status |-> "ok", val |-> FALSE] ]_vars
  /\ [][ (isConnected' /\ ~isConnected) => (calls' = calls /\ client' = "created") ]_vars
  /\ [][ (isConnected /\ ~isConnected') =>
           \/ calls' = calls
           \/ \E p \in Callers :
                /\ calls[p].op = "disconnect" /\ calls[p].pc = "replied"
                /\ calls[p].issued = <<[name |-> "quit"]>> /\ calls'[p].pc = "idle" ]_vars

\* After an 'error' event on the open connection isHealthy() returned false
\* and no ping was sent.
C24_Witness ==
  /\ Succeeded("c1", "isHealthy")
  /\ calls["c1"].outcome.val = FALSE
  /\ calls["c1"].issued = <<>>
  /\ client = "created"
  /\ ~isConnected
  /\ sockets.store = "open"

\* A step by which a call of `op` by caller p resolves.
ResolvesStep(p, op) ==
  /\ StepOp(p) = op
  /\ Moves(p)
  /\ calls'[p].pc = "idle"
  /\ calls'[p].outcome.status = "ok"

\* C25: when disconnect() resolves, no connection that connect() opened is
\* still open: in the pooled client neither a main client's nor a pool
\* client's, and connectionPool is empty, whatever connection events
\* preceded the call.
C25_AllClosed ==
  [][ \A p \in Callers :
        /\ ResolvesStep(p, "optimizedDisconnect") =>
              /\ \A i \in DOMAIN sockets'.main : sockets'.main[i] # "open"
              /\ \A i \in DOMAIN sockets'.pool : sockets'.pool[i] # "open"
              /\ optimized'.connectionPool = <<>>
        /\ ResolvesStep(p, "disconnect") => sockets'.store # "open" ]_vars

\* C25, the store's client alone (database.js).
C25_StoreClosed ==
  [][ \A p \in Callers : ResolvesStep(p, "disconnect") => sockets'.store # "open" ]_vars

\* C26: in the pooled client connectionPool never holds more than
\* maxConnections (10) clients, whatever connect, getPoolClient,
\* batchOperations and disconnect calls were made, connect calls repeated
\* or failing part-way included.
C26_PoolBounded == Len(optimized.connectionPool) <= maxConnections

\* The clients in a pool.
Members(pool) == {pool[i] : i \in DOMAIN pool}

\* A step in which getPoolClient() is called, on its own or by
\* batchOperations.
PickStep == Len(picked') = Len(picked) + 1

Pool == optimized.connectionPool

\* C27: getPoolClient returns the client at the head of connectionPool and
\* moves it to the tail, leaving the pool's members and size as they were;
\* with an empty pool it returns the main client when getClient() returns
\* it and throws when getClient() throws; and of the calls made on an
\* unchanged pool of N clients, any N consecutive ones return N different
\* clients of the pool, the call after them the first of them again.
C27_RoundRobin ==
  /\ [][ PickStep =>
          LET got == picked'[Len(picked')]
          IN IF Pool = <<>>
             THEN /\ optimized'.connectionPool = <<>>
                  /\ got = (IF optimized.client = "created" /\ optimized.isConnected
                            THEN MainClient ELSE Thrown)
             ELSE /\ got = Pool[1]
                  /\ Len(optimized'.connectionPool) = Len(Pool)
                  /\ Members(optimized'.connectionPool) = Members(Pool)
                  /\ optimized'.connectionPool[Len(Pool)] = got ]_vars
  /\ [](Pool # <<>> =>
          /\ Cardinality(Members(Pool)) = Len(Pool)
          /\ \A i \in DOMAIN picked : picked[i] \in Members(Pool)
          /\ \A i, j \in DOMAIN picked :
                /\ (i < j /\ j - i < Len(Pool)) => picked[i] # picked[j]
                /\ j - i = Len(Pool) => picked[i] = picked[j])

\* C27 witness: on a pool of maxConnections clients more than
\* maxConnections calls were made in a row; the first maxConnections of
\* them returned every client of the pool.
C27_Witness ==
  /\ Len(Pool) = maxConnections
  /\ Len(picked) > maxConnections
  /\ {picked[i] : i \in 1..maxConnections} = Members(Pool)

\* The lists with an operation whose type is not hincrby, hget or hgetall.
HasUnsupported(operations) ==
  \E i \in DOMAIN operations : operations[i].type \notin {"hincrby", "hget", "hgetall"}

\* C28: a batchOperations call either sends one exec holding its whole
\* list, or throws at once having sent nothing and with the backend
\* unchanged, 'Unsupported operation type' when getPoolClient gave a client;
\* and no exec sent or executed holds an operation of a type other than
\* hincrby, hget or hgetall: a list with such an operation is thrown for
\* and none of its operations is applied.
C28_AllOrNothing ==
  /\ [][ \A p \in Callers :
          (Starts(p) /\ calls'[p].op = "batchOperations") =>
            \/ calls'[p].pc = "sent" /\ calls'[p].cmd.name = "exec"
            \/ /\ calls'[p].pc = "idle"
               /\ calls'[p].outcome.status = "error"
               /\ calls'[p].outcome.val.message =
                    (IF getPoolClientThrows THEN "Redis client not connected"
                     ELSE "Unsupported operation type: ")
               /\ calls'[p].issued = <<>>
               /\ db' = db ]_vars
  /\ [](\A p \in Callers :
          /\ calls[p].cmd.name = "exec" => ~HasUnsupported(calls[p].cmd.ops)
          /\ \A i \in DOMAIN calls[p].issued :
                calls[p].issued[i].name = "exec" => ~HasUnsupported(calls[p].issued[i].ops))

\* C28 witness: a batchOperations call on a list of a supported hincrby
\* followed by a del was rejected for the del, with nothing sent and
\* visit_stats without the field of the hincrby.
C28_Witness ==
  /\ calls["c1"].op = "batchOperations"
  /\ calls["c1"].pc = "idle"
  /\ calls["c1"].outcome.status = "error"
  /\ calls["c1"].outcome.val = UnsupportedOperationError("del")
  /\ calls["c1"].issued = <<>>
  /\ db[STATS_KEY] = EmptyHash

\* C29: once a SIGTERM or SIGINT was received, whenever that was, the
\* process exits only after the HTTP server closed and disconnect() was
\* called and returned, with code 0 if disconnect() resolved and 1 if it
\* threw; and disconnect() is called only with the HTTP server closed.
C29_GracefulShutdown ==
  /\ [](server.signals > 0 /\ server.exit # "none" =>
          /\ server.http = "closed"
          /\ calls["c1"].op = "disconnect" /\ calls["c1"].pc = "idle"
          /\ server.exit = (IF calls["c1"].outcome.status = "ok" THEN "0" ELSE "1"))
  /\ [][ \A p \in Callers :
          (Starts(p) /\ calls'[p].op = "disconnect") => server.http = "closed" ]_vars

\* C30: the response to a request that matched no route has status 404.
C30_NotFoundIs404 ==
  \A p \in Callers : calls[p].op = "notFound" => calls[p].res.status = 404


====
